---- MODULE Spec2Model ----
(***************************************************************************)
(* VirtuoSoS: the live MIDI router (src/main.py), the Empads instrument    *)
(* with its timer-driven automatic note off (src/instruments/empads.py,    *)
(* src/instruments/base.py) and the shutdown path (emergency_stop).        *)
(*                                                                         *)
(* Threads: the main thread runs the routing loop and, when SIGINT         *)
(* arrives, the signal handler nested on top of whatever the loop was      *)
(* doing; every threading.Timer is a thread of its own.  A timer thread    *)
(* first tests its "finished" flag (TimerFire) and then calls              *)
(* _send_auto_note_off, which takes the instrument lock (TimerCallback).   *)
(* A section that runs under the lock and is not interruptible by the      *)
(* thread's own signal handler is one step; process_message on the main    *)
(* thread is split at the lock acquisition because the handler can run     *)
(* between any two bytecodes of the main thread.                           *)
(***************************************************************************)
EXTENDS Integers, Sequences, FiniteSets, TLC

\* ------------------------------------------------------------------ bounds
\* Number of environment operations in one run: source messages polled and
\* API calls (stop, enable, disable).
MaxOps == 3

\* ------------------------------------------------- configuration and values
\* The registered instruments, in load order (main.py load_instruments).
Instruments == {1, 2}

NumInstruments == Cardinality(Instruments)

\* BaseInstrument.midi_channel of each instrument.
midi_channel == <<0, 0>>

\* BaseInstrument.output_channel of each instrument (the second one keeps
\* the default, its input channel).
output_channel == <<1, 0>>

\* Messages without a channel attribute (clock, sysex) carry this value.
NoChannel == 0 - 1

\* Notes the source plays: 36 lies in the fallback range, 35 does not.
Notes == {35, 36}

\* range(36, 82): the notes emergency_stop_all_notes releases as last resort.
FallbackLow == 36

FallbackHigh == 82

\* ------------------------------------------------------------- messages
Message(t, c, n, v) == [type |-> t, channel |-> c, note |-> n, velocity |-> v]

NoMsg == Message("none", NoChannel, 0, 0)

\* What inport.poll() can return: every kind of message on the instruments'
\* input channel, an attack on another channel, and a message without a
\* channel.  For the controller kinds the note field is the first data byte
\* and the velocity field the second.
SourceMessages ==
     {Message("note_on", 0, n, 100) : n \in Notes}
  \cup {Message("note_on", 0, 36, 0), Message("note_off", 0, 36, 64)}
  \cup {Message(t, 0, 7, 100) :
          t \in {"control_change", "program_change", "pitchwheel", "aftertouch"}}
  \cup {Message("note_on", 1, 36, 100), Message("clock", NoChannel, 0, 0)}

\* One call of comprehensive_all_notes_off, as one entry of the sink log.
PanicFlushMsg == Message("panic_flush", NoChannel, 0, 0)

ReleaseMsg(i, n) == Message("note_on", output_channel[i], n, 0)

AllNotesOffMsg(i) == Message("control_change", output_channel[i], 123, 0)

\* ---------------------------------------------------------------- state
VARIABLES
  running,          \* main.py global running
  outport,          \* main.py global outport: TRUE once the ports are open
  routerPc,         \* position of main(): start, poll, offer, locked, forward, exited, failed
  msg,              \* the message the routing loop holds
  idx,              \* the instrument the loop offers msg to
  handlerPc,        \* position of the SIGINT handler: idle, flush, estop, exit, done
  handlerIdx,       \* the instrument emergency_stop is at
  is_enabled,       \* BaseInstrument.is_enabled, per instrument
  active_notes,     \* Empads.active_notes, per instrument
  recent_notes,     \* Empads.recent_notes, per instrument
  notes_sent_off,   \* Empads.notes_sent_off, per instrument
  pending_timers,   \* Empads.pending_timers: note -> id of the timer, 0 for no entry
  lock,             \* Empads.lock: "free" or the thread that holds it
  timers,           \* the started timer threads that can still run
  attacks,          \* per instrument and note, the number of timers created: timer ids
  stopAt,           \* per instrument and note, attacks when stop() last ran
  sink,             \* the outport.send calls since the loop last polled a message, in order
  releases,         \* per instrument and note, the releases that reached the port since its last attack
  attempts,         \* per instrument and note, the releases the instrument tried to send since its last attack
  sinkDown,         \* what the output port currently rejects
  ops,              \* environment operations performed
  shutdown,         \* the steps emergency_stop() has performed, in order
  seen,             \* the process_message calls for the held message: <<instrument, outcome>>
  inport,           \* the input port: open, or dead once it has become unusable
  loopErrors,       \* the kinds of exception the loop's handler (line 355) has caught
  flushPc,          \* comprehensive_all_notes_off: idle, sending, done, or failed (its except clause)
  round_num,        \* its loop variable round_num
  channel,          \* its loop variable channel
  flushStep,        \* the send it is at within the channel, 0 for all_sound_off
  flushLast,        \* the message of its latest outport.send call
  flushSent,        \* the sends the port accepted: [cc |-> control changes, note |-> note messages]
  flushCalls,       \* the outport.send calls it has made
  midi_file,        \* fix_short_notes: its argument midi_file, NoFile when it is not called
  min_duration_ms,  \* fix_short_notes: its argument min_duration_ms
  new_midi_file,    \* fix_short_notes: new_midi_file, the file it builds and returns
  fixPc,            \* fix_short_notes: idle, walk, orphans, encode, or returned
  track_idx,        \* fix_short_notes: the track it is at, from 1
  note_stacks,      \* fix_short_notes: its local active_notes, the dict in insertion order
  additional_note_offs, \* fix_short_notes: its local list of (time, note_off) to add
  note_off_delay,   \* Empads.note_off_delay, per instrument, in milliseconds
  playPc,           \* play_midi_file: idle, open, start, play, handler, stop, join, final, finally, close, returned, raised
  play_outport,     \* play_midi_file: its local outport: none, open or closed
  playLog,          \* play_midi_file: what it has done to the port and the progress thread, in order
  playResult,       \* play_midi_file: the value of its return statement: none, True or False
  playback_interrupted, \* play_midi_file: its local playback_interrupted
  progress_thread,  \* play_midi_file: the progress thread: none, running or finished
  progress_stop_event, \* play_midi_file: its threading.Event
  playLeft,         \* play_midi_file: the messages midi_file.play() has still to yield
  playPending,      \* play_midi_file: the exception that is propagating through it, none if none
  sigint,           \* the SIGINT handler in force: main (signal_handler of main.py) or default (Python's)
  playCause         \* play_midi_file: what has disturbed the playback: interrupt, error

portVars == <<outport, inport>>

loopVars == <<routerPc, msg, idx, seen, loopErrors>>

handlerVars == <<running, handlerPc, handlerIdx, shutdown>>

routerVars == <<portVars, loopVars, handlerVars>>

sinkVars == <<sink, sinkDown, releases, attempts>>

instVars == <<is_enabled, active_notes, recent_notes, notes_sent_off,
              pending_timers, lock, timers, attacks, stopAt>>

flushVars == <<flushPc, round_num, channel, flushStep, flushLast, flushSent, flushCalls>>

fixVars == <<midi_file, min_duration_ms, new_midi_file, fixPc, track_idx,
             note_stacks, additional_note_offs>>

delayVars == <<note_off_delay>>

playVars == <<playPc, play_outport, playLog, playResult, playback_interrupted,
              progress_thread, progress_stop_event, playLeft, playPending, sigint,
              playCause>>

\* What the routing session leaves alone: the functions of modules/play.py
\* and the delay of the instruments, which only the constructor and
\* set_note_off_delay write.
offlineVars == <<flushVars, fixVars, delayVars, playVars>>

\* The routing session: main(), the instruments and the port.
sessionVars == <<routerVars, instVars, sinkVars, ops>>

vars == <<sessionVars, offlineVars>>

\* ------------------------------------------------------------- the sink
\* The port can fail per message: it rejects note messages of the notes in
\* sinkDown and, with CtlKey in sinkDown, every other message.
CtlKey == 0 - 1

FaultKeys == Notes \cup {CtlKey}

IsNoteMsg(m) == m.type \in {"note_on", "note_off"}

Rejects(m) == IF IsNoteMsg(m) THEN m.note \in sinkDown ELSE CtlKey \in sinkDown

\* outport.send(m): the attempt is logged with its outcome and with who
\* sent it: src is <<kind, instrument, timer id>>.
Entry(m, src) == [msg |-> m, ok |-> ~Rejects(m), src |-> src]

Send(log, m, src) == Append(log, Entry(m, src))

\* ------------------------------------------------------- BaseInstrument
is_my_channel(i, m) == m.channel # NoChannel /\ m.channel = midi_channel[i]

\* Faulty variant: forward_message sends msg itself, on its input channel.
RemapKeepsChannel(i, m) == m

\* forward_message: msg.copy(channel=self.output_channel)
Remap(i, m) == IF m.channel # NoChannel
               THEN [m EXCEPT !.channel = output_channel[i]]
               ELSE m

\* ---------------------------------------------------------------- Init
RouterInit ==
  /\ running = TRUE
  /\ outport = FALSE
  /\ routerPc = "start"
  /\ msg = NoMsg
  /\ idx = 0
  /\ handlerPc = "idle"
  /\ handlerIdx = 0
  /\ is_enabled = [i \in Instruments |-> TRUE]
  /\ active_notes = [i \in Instruments |-> {}]
  /\ recent_notes = [i \in Instruments |-> {}]
  /\ notes_sent_off = [i \in Instruments |-> {}]
  /\ pending_timers = [i \in Instruments |-> [n \in Notes |-> 0]]
  /\ lock = [i \in Instruments |-> "free"]
  /\ timers = {}
  /\ attacks = [i \in Instruments |-> [n \in Notes |-> 0]]
  /\ stopAt = [i \in Instruments |-> [n \in Notes |-> 0]]
  /\ sink = <<>>
  /\ releases = [i \in Instruments |-> [n \in Notes |-> 0]]
  /\ attempts = [i \in Instruments |-> [n \in Notes |-> 0]]
  /\ sinkDown = {}
  /\ ops = 0
  /\ shutdown = <<>>
  /\ seen = <<>>
  /\ inport = "open"
  /\ loopErrors = {}

\* The main thread executes the routing loop only while no handler runs on it.
LoopRuns == handlerPc = "idle"

\* ------------------------------------------------------------ timers
Timer(i, n, g, st) == [inst |-> i, note |-> n, id |-> g, st |-> st]

\* Timer.cancel() sets the finished flag: a timer that has not tested the
\* flag yet never calls back; one that has (st = "fired") is not stopped.
Cancel(ts, i, n, g) == ts \ {Timer(i, n, g, "waiting")}

\* The timers of instrument i that its pending_timers table holds.
Registered(i) == {t \in timers : t.inst = i /\ pending_timers[i][t.note] = t.id}

CancelRegistered(i) == {t \in timers : ~(t \in Registered(i) /\ t.st = "waiting")}

\* ------------------------------------------------- main(): the routing loop
\* with mido.open_input(...) as inport, mido.open_output(...) as outport_local
OpenPorts ==
  /\ LoopRuns /\ routerPc = "start"
  /\ outport' = TRUE
  /\ routerPc' = "poll"
  /\ UNCHANGED <<offlineVars, inport, msg, idx, seen, loopErrors, handlerVars, instVars, sinkVars, ops>>

\* open_input or open_output raises: the handler of line 362 logs and main returns.
OpenFails ==
  /\ LoopRuns /\ routerPc = "start"
  /\ routerPc' = "failed"
  /\ UNCHANGED <<offlineVars, portVars, msg, idx, seen, loopErrors, handlerVars, instVars, sinkVars, ops>>

\* The input port becomes permanently unusable (the device is unplugged).
SourceDies ==
  /\ LoopRuns /\ routerPc = "poll" /\ inport = "open"
  /\ inport' = "dead"
  /\ UNCHANGED <<offlineVars, outport, loopVars, handlerVars, instVars, sinkVars, ops>>

\* msg = inport.poll() returns a message.
PollMsg ==
  /\ LoopRuns /\ routerPc = "poll" /\ running
  /\ inport = "open"
  /\ ops < MaxOps
  /\ \E m \in SourceMessages : msg' = m
  /\ idx' = 1
  /\ routerPc' = "offer"
  /\ seen' = <<>>
  /\ ops' = ops + 1
  /\ sink' = <<>>
  /\ UNCHANGED <<offlineVars, portVars, loopErrors, handlerVars, instVars, sinkDown, releases, attempts>>

\* inport.poll() returns None: time.sleep(0.001), and the loop is at its head.
PollIdle ==
  /\ LoopRuns /\ routerPc = "poll" /\ running
  /\ inport = "open"
  /\ UNCHANGED vars

\* inport.poll() raises: "except Exception" logs and continues (lines 355-357).
PollRaises ==
  /\ LoopRuns /\ routerPc = "poll" /\ running
  /\ inport = "dead"
  /\ loopErrors' = loopErrors \cup {"poll"}
  /\ UNCHANGED <<offlineVars, portVars, routerPc, msg, idx, seen, handlerVars, instVars, sinkVars, ops>>

\* inport.poll() raises once (a read error of the backend): "except Exception"
\* logs and continues, and the next call of poll works again.
PollFails ==
  /\ LoopRuns /\ routerPc = "poll" /\ running
  /\ inport = "open"
  /\ ops < MaxOps
  /\ ops' = ops + 1
  /\ loopErrors' = loopErrors \cup {"poll"}
  /\ UNCHANGED <<offlineVars, portVars, routerPc, msg, idx, seen, handlerVars, instVars, sinkVars>>

\* Faulty variant: the loop body without its try, so that an exception of
\* process_message reaches the handler of line 362 and main returns.
AfterReturnRaiseEscapes(ret) ==
  IF ret = "raised" THEN [pc |-> "failed", idx |-> idx]
  ELSE IF ret = "false"
  THEN IF idx < NumInstruments THEN [pc |-> "offer", idx |-> idx + 1]
       ELSE [pc |-> "forward", idx |-> idx]
  ELSE [pc |-> "poll", idx |-> idx]

\* Faulty variant: the for loop without its break, so that after True the next
\* instrument is offered the message too.
AfterReturnNoBreak(ret) ==
  IF ret \in {"false", "true"} /\ idx < NumInstruments
  THEN [pc |-> "offer", idx |-> idx + 1]
  ELSE IF ret = "false" THEN [pc |-> "forward", idx |-> idx]
       ELSE [pc |-> "poll", idx |-> idx]

\* The loop after process_message of instrument idx ended with ret: True
\* breaks out of the for loop, False goes to the next instrument and, after
\* the last one, to the pass-through send; an exception goes to the loop's
\* handler, which continues.
AfterReturn(ret) ==
  IF ret = "false"
  THEN IF idx < NumInstruments THEN [pc |-> "offer", idx |-> idx + 1]
       ELSE [pc |-> "forward", idx |-> idx]
  ELSE [pc |-> "poll", idx |-> idx]

Returns(ret) ==
  /\ routerPc' = AfterReturn(ret).pc
  /\ idx' = AfterReturn(ret).idx
  /\ loopErrors' = IF ret = "raised" THEN loopErrors \cup {"process"} ELSE loopErrors

\* Faulty variant: the first test of process_message without is_enabled.
ClaimsWhenDisabled(i, m) == is_my_channel(i, m)

\* if not self.is_enabled or not self.is_my_channel(msg): return False
Claims(i, m) == is_enabled[i] /\ is_my_channel(i, m)

IsAttack(m) == m.type = "note_on" /\ m.velocity > 0

\* Faulty variant: only the explicit note_off is ignored, so that a note_on
\* with velocity 0 falls through to the last return.
IsSwallowedOnlyNoteOff(m) == m.type = "note_off"

\* Lines 45 and 51: a note_on with velocity 0, or a note_off.
IsSwallowed(m) == (m.type = "note_on" /\ m.velocity = 0) \/ m.type = "note_off"

IsForwarded(m) == m.type \in {"control_change", "program_change", "pitchwheel"}

\* process_message returns False at its first test.
ProcessDeclined ==
  /\ LoopRuns /\ routerPc = "offer"
  /\ ~Claims(idx, msg)
  /\ seen' = Append(seen, <<idx, "false">>)
  /\ Returns("false")
  /\ UNCHANGED <<offlineVars, portVars, msg, handlerVars, instVars, sinkVars, ops>>

\* process_message falls through every branch and returns False (line 61).
ProcessUnhandled ==
  /\ LoopRuns /\ routerPc = "offer"
  /\ Claims(idx, msg)
  /\ ~IsAttack(msg) /\ ~IsSwallowed(msg) /\ ~IsForwarded(msg)
  /\ seen' = Append(seen, <<idx, "false">>)
  /\ Returns("false")
  /\ UNCHANGED <<offlineVars, portVars, msg, handlerVars, instVars, sinkVars, ops>>

\* An attack: process_message enters "with self.lock".
ProcessAttackLock ==
  /\ LoopRuns /\ routerPc = "offer"
  /\ Claims(idx, msg) /\ IsAttack(msg)
  /\ lock[idx] = "free"
  /\ lock' = [lock EXCEPT ![idx] = "router"]
  /\ routerPc' = "locked"
  /\ seen' = Append(seen, <<idx, "pending">>)
  /\ UNCHANGED <<offlineVars, portVars, msg, idx, loopErrors, handlerVars, is_enabled, active_notes,
                 recent_notes, notes_sent_off, pending_timers, timers, attacks, stopAt,
                 sinkVars, ops>>

\* The body of the attack branch, under the lock (lines 26-41).  When
\* send_note_on raises, the lock is released and the exception reaches the
\* loop's handler: the note is neither marked active nor given a timer.
ProcessAttackBody ==
  /\ LoopRuns /\ routerPc = "locked"
  /\ LET i == idx
         n == msg.note
         out == Message("note_on", output_channel[i], n, msg.velocity)
         sent == ~Rejects(out)
         g == attacks[i][n] + 1
         kept == IF pending_timers[i][n] # 0
                 THEN Cancel(timers, i, n, pending_timers[i][n])
                 ELSE timers
     IN /\ notes_sent_off' = [notes_sent_off EXCEPT ![i] = @ \ {n}]
        /\ recent_notes' = [recent_notes EXCEPT ![i] = @ \cup {n}]
        /\ sink' = Send(sink, out, <<"attack", i, g>>)
        /\ active_notes' = IF sent THEN [active_notes EXCEPT ![i] = @ \cup {n}]
                           ELSE active_notes
        /\ timers' = IF sent THEN kept \cup {Timer(i, n, g, "waiting")} ELSE kept
        /\ pending_timers' = [pending_timers EXCEPT ![i][n] = IF sent THEN g ELSE 0]
        /\ attacks' = IF sent THEN [attacks EXCEPT ![i][n] = g] ELSE attacks
        /\ lock' = [lock EXCEPT ![i] = "free"]
        /\ releases' = [releases EXCEPT ![i][n] = 0]
        /\ attempts' = [attempts EXCEPT ![i][n] = 0]
        /\ seen' = [seen EXCEPT ![Len(seen)] = <<i, IF sent THEN "true" ELSE "raised">>]
        /\ Returns(IF sent THEN "true" ELSE "raised")
  /\ UNCHANGED <<offlineVars, portVars, msg, handlerVars, is_enabled, stopAt, sinkDown, ops>>

\* A note off from the source, in either form, is ignored and claimed.
ProcessSwallow ==
  /\ LoopRuns /\ routerPc = "offer"
  /\ Claims(idx, msg) /\ IsSwallowed(msg)
  /\ seen' = Append(seen, <<idx, "true">>)
  /\ Returns("true")
  /\ UNCHANGED <<offlineVars, portVars, msg, handlerVars, instVars, sinkVars, ops>>

\* control_change, program_change, pitchwheel: forward_message, then True.
\* A failing send raises out of process_message into the loop's handler.
ProcessForward ==
  /\ LoopRuns /\ routerPc = "offer"
  /\ Claims(idx, msg) /\ IsForwarded(msg)
  /\ LET ret == IF Rejects(Remap(idx, msg)) THEN "raised" ELSE "true"
     IN /\ sink' = Send(sink, Remap(idx, msg), <<"forward", idx, 0>>)
        /\ seen' = Append(seen, <<idx, ret>>)
        /\ Returns(ret)
  /\ UNCHANGED <<offlineVars, portVars, msg, handlerVars, instVars, sinkDown, releases, attempts, ops>>

\* if not processed: outport.send(msg); a failing send goes to the loop's handler.
PassThrough ==
  /\ LoopRuns /\ routerPc = "forward"
  /\ sink' = Send(sink, msg, <<"router", 0, 0>>)
  /\ loopErrors' = IF Rejects(msg) THEN loopErrors \cup {"send"} ELSE loopErrors
  /\ routerPc' = "poll"
  /\ UNCHANGED <<offlineVars, portVars, msg, idx, seen, handlerVars, instVars, sinkDown, releases, attempts, ops>>

\* ------------------------------------------------------ the output port
\* The port starts to raise on outport.send for the messages of key k: the
\* device was unplugged, or its buffer is full.
SinkFails ==
  /\ ops < MaxOps
  /\ \E k \in FaultKeys \ sinkDown : sinkDown' = sinkDown \cup {k}
  /\ ops' = ops + 1
  /\ UNCHANGED <<offlineVars, routerVars, instVars, sink, releases, attempts>>

\* The port accepts the messages of key k again.
SinkRecovers ==
  /\ ops < MaxOps
  /\ \E k \in sinkDown : sinkDown' = sinkDown \ {k}
  /\ ops' = ops + 1
  /\ UNCHANGED <<offlineVars, routerVars, instVars, sink, releases, attempts>>

\* ------------------------------------------------- Empads: the timer threads
\* threading.Timer.run: the delay is over and the finished flag is not set,
\* so the thread calls _send_auto_note_off, which waits for the lock.
TimerFire ==
  \E t \in timers :
    /\ t.st = "waiting"
    /\ timers' = (timers \ {t}) \cup {[t EXCEPT !.st = "fired"]}
    /\ UNCHANGED <<offlineVars, routerVars, is_enabled, active_notes, recent_notes, notes_sent_off,
                   pending_timers, lock, attacks, stopAt, sink, sinkDown, releases, attempts, ops>>

\* Faulty variant: the callback sends its note off without any test.
AutoNoteOffAlways(i, n) == TRUE

\* Faulty variant: the test of the callback inverted, so that no note off is sent.
AutoNoteOffNever(i, n) == n \in active_notes[i] /\ n \in notes_sent_off[i]

\* Faulty variant: the test of the callback reads recent_notes where the code
\* reads notes_sent_off, so that an attacked note is never due.
AutoNoteOffNotRecent(i, n) == n \in active_notes[i] /\ n \notin recent_notes[i]

\* if note in self.active_notes and note not in self.notes_sent_off
AutoNoteOffDue(i, n) == n \in active_notes[i] /\ n \notin notes_sent_off[i]

\* Faulty variant: the note is recorded as released only when the send went through.
MarkedOnlyIfSent(due, sent) == sent

\* self.notes_sent_off.add(note), line 87: send_note_off_as_note_on has caught
\* the exception of a failing send, so the line runs whenever the test held.
MarkedSentOff(due, sent) == due

\* _send_auto_note_off(note, outport), the whole callback under the lock.
\* send_note_off_as_note_on catches a failing send and then leaves the note
\* in active_notes.
TimerCallback ==
  \E t \in timers :
    /\ t.st = "fired"
    /\ lock[t.inst] = "free"
    /\ LET i == t.inst
           n == t.note
           due == AutoNoteOffDue(i, n)
           sent == due /\ ~Rejects(ReleaseMsg(i, n))
       IN /\ pending_timers' = [pending_timers EXCEPT ![i][n] = 0]
          /\ sink' = IF due THEN Send(sink, ReleaseMsg(i, n), <<"timer", i, t.id>>)
                     ELSE sink
          /\ active_notes' = IF sent THEN [active_notes EXCEPT ![i] = @ \ {n}]
                             ELSE active_notes
          /\ notes_sent_off' = IF MarkedSentOff(due, sent)
                               THEN [notes_sent_off EXCEPT ![i] = @ \cup {n}]
                               ELSE notes_sent_off
          /\ releases' = IF sent THEN [releases EXCEPT ![i][n] = @ + 1] ELSE releases
          /\ attempts' = IF due THEN [attempts EXCEPT ![i][n] = @ + 1] ELSE attempts
    /\ timers' = timers \ {t}
    /\ UNCHANGED <<offlineVars, routerVars, is_enabled, recent_notes, lock, attacks, stopAt,
                   sinkDown, ops>>

\* ------------------------------------------------- Empads: the API calls
\* The program has the main thread and the timer threads only: a call of
\* stop(), enable() or disable() is made by the main thread between two
\* iterations of the routing loop.
ApiCall == LoopRuns /\ routerPc = "poll" /\ running /\ ops < MaxOps

\* Empads.stop()
Stop(i) ==
  /\ ApiCall
  /\ lock[i] = "free"
  /\ timers' = CancelRegistered(i)
  /\ pending_timers' = [pending_timers EXCEPT ![i] = [n \in Notes |-> 0]]
  /\ active_notes' = [active_notes EXCEPT ![i] = {}]
  /\ recent_notes' = [recent_notes EXCEPT ![i] = {}]
  /\ notes_sent_off' = [notes_sent_off EXCEPT ![i] = {}]
  /\ stopAt' = [stopAt EXCEPT ![i] = attacks[i]]
  /\ ops' = ops + 1
  /\ UNCHANGED <<offlineVars, routerVars, is_enabled, lock, attacks, sink, sinkDown, releases, attempts>>

\* BaseInstrument.disable()
Disable(i) ==
  /\ ApiCall
  /\ is_enabled[i]
  /\ is_enabled' = [is_enabled EXCEPT ![i] = FALSE]
  /\ ops' = ops + 1
  /\ UNCHANGED <<offlineVars, routerVars, active_notes, recent_notes, notes_sent_off,
                 pending_timers, lock, timers, attacks, stopAt, sink, sinkDown, releases, attempts>>

\* BaseInstrument.enable()
Enable(i) ==
  /\ ApiCall
  /\ ~is_enabled[i]
  /\ is_enabled' = [is_enabled EXCEPT ![i] = TRUE]
  /\ ops' = ops + 1
  /\ UNCHANGED <<offlineVars, routerVars, active_notes, recent_notes, notes_sent_off,
                 pending_timers, lock, timers, attacks, stopAt, sink, sinkDown, releases, attempts>>

\* ------------------------------------- Empads.emergency_stop_all_notes
Range(f) == {f[k] : k \in DOMAIN f}

RECURSIVE Orderings(_)
\* The orders in which Python may iterate over a set.
Orderings(S) ==
  IF S = {} THEN {<<>>}
  ELSE UNION {{<<x>> \o s : s \in Orderings(S \ {x})} : x \in S}

\* list(range(36, 82))
FallbackNotes == [k \in 1..(FallbackHigh - FallbackLow) |-> FallbackLow + k - 1]

\* The first loop: active notes that have had no note off.
ActiveToStop(i) == active_notes[i] \ notes_sent_off[i]

\* The second loop: recent notes that have had no note off and are not listed.
RecentToStop(i) == (recent_notes[i] \ notes_sent_off[i]) \ ActiveToStop(i)

\* if not notes_to_stop: notes_to_stop = list(range(36, 82))
NotesToStop(first, second) ==
  IF first \o second = <<>> THEN FallbackNotes ELSE first \o second

RECURSIVE SendReleasesUntilFailure(_, _, _, _)
\* Faulty variant: the loop over notes_to_stop without a try, so that the
\* first send the port rejects ends it.
SendReleasesUntilFailure(log, i, notes, kind) ==
  IF notes = <<>> THEN log
  ELSE IF Rejects(ReleaseMsg(i, Head(notes)))
  THEN Send(log, ReleaseMsg(i, Head(notes)), <<kind, i, 0>>)
  ELSE SendReleasesUntilFailure(Send(log, ReleaseMsg(i, Head(notes)), <<kind, i, 0>>),
                                i, Tail(notes), kind)

RECURSIVE SendReleases(_, _, _, _)
\* for note in notes_to_stop: self.send_note_off_as_note_on(note, outport)
\* kind tells the log which list the notes come from: estop or fallback.
SendReleases(log, i, notes, kind) ==
  IF notes = <<>> THEN log
  ELSE SendReleases(Send(log, ReleaseMsg(i, Head(notes)), <<kind, i, 0>>),
                    i, Tail(notes), kind)

\* The body of emergency_stop_all_notes(outport) for instrument i, under the
\* lock: the sends of the notes, then CC 123, then the three sets cleared.
EmergencyStopAllNotes(i) ==
  /\ lock[i] = "free"
  /\ \E first \in Orderings(ActiveToStop(i)), second \in Orderings(RecentToStop(i)) :
        /\ sink' = Send(SendReleases(sink, i, NotesToStop(first, second),
                                     IF first \o second = <<>> THEN "fallback" ELSE "estop"),
                        AllNotesOffMsg(i), <<"estop", i, 0>>)
        /\ releases' = [releases EXCEPT ![i] =
              [n \in Notes |->
                 IF n \in Range(NotesToStop(first, second)) /\ ~Rejects(ReleaseMsg(i, n))
                 THEN @[n] + 1 ELSE @[n]]]
        /\ attempts' = [attempts EXCEPT ![i] =
              [n \in Notes |->
                 IF n \in Range(NotesToStop(first, second)) THEN @[n] + 1 ELSE @[n]]]
  /\ timers' = CancelRegistered(i)
  /\ pending_timers' = [pending_timers EXCEPT ![i] = [n \in Notes |-> 0]]
  /\ active_notes' = [active_notes EXCEPT ![i] = {}]
  /\ recent_notes' = [recent_notes EXCEPT ![i] = {}]
  /\ notes_sent_off' = [notes_sent_off EXCEPT ![i] = {}]

\* ------------------------------------- main.py: SIGINT and emergency_stop
\* SIGINT reaches the main thread between two of its bytecodes: signal_handler
\* calls cleanup_and_exit, which calls emergency_stop, which first clears the
\* running flag.
Interrupt ==
  /\ handlerPc = "idle"
  /\ routerPc \in {"start", "poll", "offer", "locked", "forward"}
  /\ running' = FALSE
  /\ handlerPc' = "flush"
  /\ shutdown' = Append(shutdown, <<"running_cleared", 0>>)
  /\ UNCHANGED <<offlineVars, portVars, loopVars, handlerIdx, instVars, sinkVars, ops>>

\* if outport: play.comprehensive_all_notes_off(outport, logger)
HandlerFlush ==
  /\ handlerPc = "flush"
  /\ outport
  /\ sink' = Send(sink, PanicFlushMsg, <<"flush", 0, 0>>)
  /\ shutdown' = Append(shutdown, <<"flush", 0>>)
  /\ handlerPc' = "estop"
  /\ handlerIdx' = 1
  /\ UNCHANGED <<offlineVars, portVars, loopVars, running, instVars, sinkDown, releases, attempts, ops>>

\* if not outport: nothing is sent; the handler goes on to sys.exit.
HandlerNoPort ==
  /\ handlerPc = "flush"
  /\ ~outport
  /\ shutdown' = Append(shutdown, <<"no_port", 0>>)
  /\ handlerPc' = "exit"
  /\ UNCHANGED <<offlineVars, portVars, loopVars, running, handlerIdx, instVars, sinkVars, ops>>

\* for instrument in instruments: instrument.emergency_stop_all_notes(outport)
\* The lock is not reentrant: when the interrupted loop holds it, this step
\* is never enabled.
HandlerEmergencyStop ==
  /\ handlerPc = "estop"
  /\ EmergencyStopAllNotes(handlerIdx)
  /\ shutdown' = Append(shutdown, <<"emergency_stop", handlerIdx>>)
  /\ handlerIdx' = IF handlerIdx < NumInstruments THEN handlerIdx + 1 ELSE handlerIdx
  /\ handlerPc' = IF handlerIdx < NumInstruments THEN "estop" ELSE "exit"
  /\ UNCHANGED <<offlineVars, portVars, loopVars, running, is_enabled, lock, attacks, stopAt,
                 sinkDown, ops>>

\* Faulty variant: signal_handler returns without sys.exit, and the loop resumes.
AfterHandlerResumes == "resumed"

\* What the handler does to main() when emergency_stop has returned:
\* sys.exit(0) raises SystemExit at the interrupted point, which no handler
\* of the loop catches.
AfterHandler == "exited"

HandlerExit ==
  /\ handlerPc = "exit"
  /\ handlerPc' = IF AfterHandler = "exited" THEN "done" ELSE "idle"
  /\ routerPc' = IF AfterHandler = "exited" THEN "exited" ELSE routerPc
  /\ shutdown' = Append(shutdown, <<"exit", 0>>)
  /\ UNCHANGED <<offlineVars, portVars, msg, idx, seen, loopErrors, running, handlerIdx, instVars,
                 sinkVars, ops>>

\* -------------------------- modules/play.py: comprehensive_all_notes_off
\* for round_num in range(3)
FlushRounds == 3

\* for channel in range(16)
FlushChannels == 16

\* for note in range(128)
FlushNoteCount == 128

ControlChange(c, control) == Message("control_change", c, control, 0)

\* for note in range(128): the note_on with velocity 0, then the note_off.
NoteSends(c) ==
  [k \in 1..(2 * FlushNoteCount) |->
     IF k % 2 = 1 THEN Message("note_on", c, (k - 1) \div 2, 0)
                  ELSE Message("note_off", c, (k - 1) \div 2, 0)]

\* Faulty variant: the body of the channel loop without the sostenuto message.
ChannelSendsShort(c) ==
  <<ControlChange(c, 120), ControlChange(c, 123)>> \o NoteSends(c)
    \o <<ControlChange(c, 121), ControlChange(c, 64), ControlChange(c, 67)>>

\* Faulty variant: the body of the channel loop with the two pedals swapped.
ChannelSendsSwapped(c) ==
  <<ControlChange(c, 120), ControlChange(c, 123)>> \o NoteSends(c)
    \o <<ControlChange(c, 121), ControlChange(c, 67), ControlChange(c, 64),
         ControlChange(c, 66)>>

\* The outport.send calls of one pass of the channel loop (lines 207-262).
ChannelSends(c) ==
  <<ControlChange(c, 120), ControlChange(c, 123)>> \o NoteSends(c)
    \o <<ControlChange(c, 121), ControlChange(c, 64), ControlChange(c, 67),
         ControlChange(c, 66)>>

FlushIdle ==
  /\ flushPc = "idle" /\ round_num = 0 /\ channel = 0 /\ flushStep = 0
  /\ flushLast = NoMsg /\ flushSent = [cc |-> 0, note |-> 0] /\ flushCalls = 0

\* comprehensive_all_notes_off(outport) has been called and is at its first send.
FlushCalled ==
  /\ flushPc = "sending" /\ round_num = 0 /\ channel = 0 /\ flushStep = 0
  /\ flushLast = NoMsg /\ flushSent = [cc |-> 0, note |-> 0] /\ flushCalls = 0

\* One outport.send that the port accepts, and the loops' step to the next
\* send: the next statement of the channel, else the next channel, else the
\* next round, else the end of the function.
FlushSend ==
  /\ flushPc = "sending"
  /\ LET sends == ChannelSends(channel)
         m == sends[flushStep + 1]
     IN /\ flushLast' = m
        /\ flushCalls' = flushCalls + 1
        /\ flushSent' = IF m.type = "control_change"
                        THEN [flushSent EXCEPT !.cc = @ + 1]
                        ELSE [flushSent EXCEPT !.note = @ + 1]
        /\ IF flushStep + 1 < Len(sends)
           THEN /\ flushStep' = flushStep + 1
                /\ UNCHANGED <<flushPc, round_num, channel>>
           ELSE IF channel + 1 < FlushChannels
           THEN /\ flushStep' = 0 /\ channel' = channel + 1
                /\ UNCHANGED <<flushPc, round_num>>
           ELSE IF round_num + 1 < FlushRounds
           THEN /\ flushStep' = 0 /\ channel' = 0 /\ round_num' = round_num + 1
                /\ UNCHANGED flushPc
           ELSE /\ flushPc' = "done"
                /\ UNCHANGED <<round_num, channel, flushStep>>
  /\ UNCHANGED <<sessionVars, fixVars, delayVars, playVars>>

\* One outport.send that raises: the only try statement of the function
\* encloses all three rounds, so its except clause (line 271) logs the error
\* and the function returns.
FlushSendRaises ==
  /\ flushPc = "sending"
  /\ flushLast' = ChannelSends(channel)[flushStep + 1]
  /\ flushCalls' = flushCalls + 1
  /\ flushPc' = "failed"
  /\ UNCHANGED <<round_num, channel, flushStep, flushSent, sessionVars, fixVars, delayVars, playVars>>

FlushNext == FlushSend \/ FlushSendRaises

\* ------------------------------------ modules/play.py: fix_short_notes
\* A message of a track: msg.time is the delta to the message before it.
TrackMessage(t, c, n, v, d) ==
  [type |-> t, channel |-> c, note |-> n, velocity |-> v, time |-> d]

NoFile == [ticks_per_beat |-> 0, tracks |-> <<>>]

\* microseconds_per_beat = 500000
DefaultTempo == 500000

IsTempo(m) == m.type = "set_tempo"

\* for msg in track: if msg.type == 'set_tempo': ...; break
FirstTempo(track) ==
  track[CHOOSE k \in DOMAIN track :
          IsTempo(track[k]) /\ \A j \in 1..(k - 1) : ~IsTempo(track[j])].tempo

RECURSIVE ScanTempo(_, _)
\* for track in midi_file.tracks: the break leaves the inner loop only, so
\* every track that holds a set_tempo overwrites the value.
ScanTempo(tracks, current) ==
  IF tracks = <<>> THEN current
  ELSE ScanTempo(Tail(tracks),
                 IF \E k \in DOMAIN Head(tracks) : IsTempo(Head(tracks)[k])
                 THEN FirstTempo(Head(tracks)) ELSE current)

\* int(x / y) for y > 0: the quotient truncated towards zero.
IntOfQuotient(x, y) == IF x >= 0 THEN x \div y ELSE 0 - ((0 - x) \div y)

\* min_duration_ticks = int((min_duration_ms * 1000 * ticks_per_beat) / microseconds_per_beat)
MinDurationTicks(file, ms) ==
  IntOfQuotient(ms * 1000 * file.ticks_per_beat, ScanTempo(file.tracks, DefaultTempo))

RECURSIVE CurrentTime(_, _)
\* current_time += msg.time, up to message k of the track.
CurrentTime(track, k) == IF k = 0 THEN 0 ELSE CurrentTime(track, k - 1) + track[k].time

\* absolute_messages: (current_time, msg.copy()) for every message.
AbsoluteMessages(track) == [k \in DOMAIN track |-> <<CurrentTime(track, k), track[k]>>]

IsNoteOn(m) == m.type = "note_on" /\ m.velocity > 0

IsNoteOff(m) == m.type = "note_off" \/ (m.type = "note_on" /\ m.velocity = 0)

\* key = (msg.channel, msg.note)
Key(m) == <<m.channel, m.note>>

\* mido.Message('note_off', channel=..., note=..., velocity=0), its time still 0.
ExtraNoteOff(c, n) == TrackMessage("note_off", c, n, 0, 0)

\* The place of key in the dict, 0 when it is not in it.
Slot(stacks, key) ==
  IF \E k \in DOMAIN stacks : stacks[k].key = key
  THEN CHOOSE k \in DOMAIN stacks : stacks[k].key = key
  ELSE 0

\* active_notes[key].append(abs_time), after active_notes[key] = [] for a new key.
Push(stacks, key, t) ==
  IF Slot(stacks, key) = 0
  THEN Append(stacks, [key |-> key, times |-> <<t>>])
  ELSE [stacks EXCEPT ![Slot(stacks, key)].times = Append(@, t)]

\* Faulty variant: the oldest note_on leaves the list instead of the newest.
PopOldest(stacks, key) ==
  LET k == Slot(stacks, key)
      rest == Tail(stacks[k].times)
  IN IF rest = <<>>
     THEN SubSeq(stacks, 1, k - 1) \o SubSeq(stacks, k + 1, Len(stacks))
     ELSE [stacks EXCEPT ![k].times = rest]

\* active_notes[key].pop(), and del active_notes[key] when the list is empty.
Pop(stacks, key) ==
  LET k == Slot(stacks, key)
      rest == SubSeq(stacks[k].times, 1, Len(stacks[k].times) - 1)
  IN IF rest = <<>>
     THEN SubSeq(stacks, 1, k - 1) \o SubSeq(stacks, k + 1, Len(stacks))
     ELSE [stacks EXCEPT ![k].times = rest]

\* Faulty variant: the pass with note_duration <= min_duration_ticks as its test.
WalkStepInclusive(st, am, ticks) ==
  LET t == am[1]
      m == am[2]
      k == Slot(st.stacks, Key(m))
  IN IF IsNoteOn(m) THEN [st EXCEPT !.stacks = Push(@, Key(m), t)]
     ELSE IF IsNoteOff(m) /\ k # 0
     THEN LET note_on_time == st.stacks[k].times[Len(st.stacks[k].times)]
          IN [stacks |-> Pop(st.stacks, Key(m)),
              extra |-> IF t - note_on_time <= ticks
                        THEN Append(st.extra, <<note_on_time + ticks,
                                                ExtraNoteOff(m.channel, m.note)>>)
                        ELSE st.extra]
     ELSE st

\* One pass of the loop over absolute_messages (lines 375-406): st holds
\* active_notes as stacks and additional_note_offs as extra.
WalkStep(st, am, ticks) ==
  LET t == am[1]
      m == am[2]
      k == Slot(st.stacks, Key(m))
  IN IF IsNoteOn(m) THEN [st EXCEPT !.stacks = Push(@, Key(m), t)]
     ELSE IF IsNoteOff(m) /\ k # 0
     THEN LET note_on_time == st.stacks[k].times[Len(st.stacks[k].times)]
          IN [stacks |-> Pop(st.stacks, Key(m)),
              extra |-> IF t - note_on_time < ticks
                        THEN Append(st.extra, <<note_on_time + ticks,
                                                ExtraNoteOff(m.channel, m.note)>>)
                        ELSE st.extra]
     ELSE st

RECURSIVE Walk(_, _, _)
\* for abs_time, msg in absolute_messages, up to message k.
Walk(abs, k, ticks) ==
  IF k = 0 THEN [stacks |-> <<>>, extra |-> <<>>]
  ELSE WalkStep(Walk(abs, k - 1, ticks), abs[k], ticks)

\* Faulty variant: one note_off per key left in the dict, for its first note_on.
OrphanNoteOffsPerKey(stacks, ticks) ==
  [k \in DOMAIN stacks |->
     <<stacks[k].times[1] + ticks, ExtraNoteOff(stacks[k].key[1], stacks[k].key[2])>>]

RECURSIVE OrphanNoteOffs(_, _)
\* for key, note_on_times in active_notes.items(): for note_on_time in note_on_times
OrphanNoteOffs(stacks, ticks) ==
  IF stacks = <<>> THEN <<>>
  ELSE [j \in DOMAIN Head(stacks).times |->
          <<Head(stacks).times[j] + ticks,
            ExtraNoteOff(Head(stacks).key[1], Head(stacks).key[2])>>]
       \o OrphanNoteOffs(Tail(stacks), ticks)

\* Faulty variant: the new element goes before the elements of its time.
InsertByTimeFirst(sorted, x) ==
  LET n == Cardinality({k \in DOMAIN sorted : sorted[k][1] < x[1]})
  IN SubSeq(sorted, 1, n) \o <<x>> \o SubSeq(sorted, n + 1, Len(sorted))

\* x put into a list sorted by time, behind the elements of its own time.
InsertByTime(sorted, x) ==
  LET n == Cardinality({k \in DOMAIN sorted : sorted[k][1] <= x[1]})
  IN SubSeq(sorted, 1, n) \o <<x>> \o SubSeq(sorted, n + 1, Len(sorted))

\* Faulty variant: all_messages is left as it was put together, the added
\* note_offs behind the originals.
SortByTimeNone(all) == all

RECURSIVE SortByTime(_)
\* all_messages.sort(key=lambda x: x[0]): list.sort is stable.
SortByTime(all) ==
  IF all = <<>> THEN <<>>
  ELSE InsertByTime(SortByTime(SubSeq(all, 1, Len(all) - 1)), all[Len(all)])

\* msg.time = abs_time - last_time; new_track.append(msg); last_time = abs_time
NewTrack(all) ==
  [k \in DOMAIN all |->
     [all[k][2] EXCEPT !.time = all[k][1] - (IF k = 1 THEN 0 ELSE all[k - 1][1])]]

\* Faulty variant: absolute_messages holds the message objects of the input
\* track themselves.
MsgCopyAlias(k) == k

\* msg.copy(), line 369: the object that stands in absolute_messages for
\* message k of the track is a new one (0), not object k of the input.
MsgCopy(k) == 0

\* absolute_messages as (current_time, object).
AbsoluteRefs(track) == [k \in DOMAIN track |-> <<CurrentTime(track, k), MsgCopy(k)>>]

\* additional_note_offs as (extended_time, object): mido.Message(...) is new.
ExtraRefs(extra) == [j \in DOMAIN extra |-> <<extra[j][1], 0>>]

\* The input track after "msg.time = abs_time - last_time" has run over the
\* sorted objects refs: an object of the input among them has its time set.
WrittenThrough(track, refs) ==
  [k \in DOMAIN track |->
     IF \E j \in DOMAIN refs : refs[j][2] = k
     THEN LET j == CHOOSE j \in DOMAIN refs : refs[j][2] = k
          IN [track[k] EXCEPT !.time = refs[j][1] - (IF j = 1 THEN 0 ELSE refs[j - 1][1])]
     ELSE track[k]]

\* The track the loop over midi_file.tracks is at.
Track == midi_file.tracks[track_idx]

min_duration_ticks == MinDurationTicks(midi_file, min_duration_ms)

\* microseconds_per_beat when the loops of lines 346-350 have run.
microseconds_per_beat == ScanTempo(midi_file.tracks, DefaultTempo)

FixIdle ==
  /\ midi_file = NoFile /\ min_duration_ms = 0 /\ new_midi_file = NoFile
  /\ fixPc = "idle" /\ track_idx = 0
  /\ note_stacks = <<>> /\ additional_note_offs = <<>>

\* The walk over the track: lines 362-406.
FixWalk ==
  /\ fixPc = "walk"
  /\ LET st == Walk(AbsoluteMessages(Track), Len(Track), min_duration_ticks)
     IN /\ note_stacks' = st.stacks
        /\ additional_note_offs' = st.extra
  /\ fixPc' = "orphans"
  /\ UNCHANGED <<midi_file, min_duration_ms, new_midi_file, track_idx,
                 sessionVars, flushVars, delayVars, playVars>>

\* The note_ons left on the stacks: lines 408-416.
FixOrphans ==
  /\ fixPc = "orphans"
  /\ additional_note_offs' =
       additional_note_offs \o OrphanNoteOffs(note_stacks, min_duration_ticks)
  /\ fixPc' = "encode"
  /\ UNCHANGED <<midi_file, min_duration_ms, new_midi_file, track_idx, note_stacks,
                 sessionVars, flushVars, delayVars, playVars>>

\* The new track: lines 418-432, then the next track or the return.
FixEncode ==
  /\ fixPc = "encode"
  /\ new_midi_file' =
       [new_midi_file EXCEPT !.tracks =
          Append(@, NewTrack(SortByTime(AbsoluteMessages(Track) \o additional_note_offs)))]
  /\ midi_file' =
       [midi_file EXCEPT !.tracks[track_idx] =
          WrittenThrough(Track, SortByTime(AbsoluteRefs(Track)
                                             \o ExtraRefs(additional_note_offs)))]
  /\ IF track_idx < Len(midi_file.tracks)
     THEN /\ track_idx' = track_idx + 1 /\ fixPc' = "walk"
          /\ note_stacks' = <<>> /\ additional_note_offs' = <<>>
     ELSE /\ fixPc' = "returned"
          /\ UNCHANGED <<track_idx, note_stacks, additional_note_offs>>
  /\ UNCHANGED <<min_duration_ms, sessionVars, flushVars, delayVars, playVars>>

\* An exception leaves fix_short_notes between two of its steps (the
\* SystemExit of the SIGINT handler, an error of a message): the function has
\* no try, and the file it was building is dropped with its frame.
FixRaises ==
  /\ fixPc \in {"walk", "orphans", "encode"}
  /\ fixPc' = "raised"
  /\ UNCHANGED <<midi_file, min_duration_ms, new_midi_file, track_idx, note_stacks,
                 additional_note_offs, sessionVars, flushVars, delayVars, playVars>>

FixNext == FixWalk \/ FixOrphans \/ FixEncode

\* The longest track of the files fix_short_notes is given.
MaxTrackLen == 4

FixKeys == {<<0, 60>>, <<1, 60>>}

FixDeltas == {0, 1}

\* The messages of the tracks: on channel 0 a note_on, a note_on with
\* velocity 0 and a note_off of note 60, on channel 1 a note_on and a
\* note_off of the same note, and a control change two ticks after the
\* message before it.
FixMessages ==
  {TrackMessage(t[1], t[2], 60, t[3], d) :
     t \in {<<"note_on", 0, 100>>, <<"note_on", 0, 0>>, <<"note_off", 0, 64>>,
            <<"note_on", 1, 100>>, <<"note_off", 1, 64>>},
     d \in FixDeltas}
  \cup {TrackMessage("control_change", 0, 7, 100, 2)}

FixTracks == UNION {[1..n -> FixMessages] : n \in 0..MaxTrackLen}

\* The tracks of the files of two tracks.
ShortTracks == UNION {[1..n -> FixMessages] : n \in 0..1}

\* Files at 480 ticks per beat without a set_tempo: every file of one track,
\* and the files of two tracks of at most one message each.
FixFiles ==
  {[ticks_per_beat |-> 480, tracks |-> <<track>>] : track \in FixTracks}
    \cup {[ticks_per_beat |-> 480, tracks |-> <<first, second>>] :
            first \in ShortTracks, second \in ShortTracks}

\* min_duration_ms: 3 ms are 2.88 ticks at 480 ticks per beat and 120 BPM.
FixDurations == {3}

\* The files with tempo events: how many tracks they have at most, and how
\* many messages a track.
MaxTempoTracks == 2

MaxTempoTrackLen == 2

\* A set_tempo meta message; it has no channel.
TempoMessage(tempo, d) ==
  [type |-> "set_tempo", channel |-> NoChannel, note |-> 0, velocity |-> 0,
   time |-> d, tempo |-> tempo]

\* The messages of these tracks: a set_tempo of 240 BPM, one of 60 BPM, an
\* attack and its release one tick later.
TempoMessages ==
  {TempoMessage(250000, 0), TempoMessage(1000000, 0),
   TrackMessage("note_on", 0, 60, 100, 0), TrackMessage("note_off", 0, 60, 64, 1)}

TempoTracks == UNION {[1..n -> TempoMessages] : n \in 0..MaxTempoTrackLen}

TempoFiles ==
  {[ticks_per_beat |-> tpb, tracks |-> tracks] :
     tpb \in {96, 480},
     tracks \in UNION {[1..n -> TempoTracks] : n \in 1..MaxTempoTracks}}

\* min_duration_ms: at 480 ticks per beat and 120 BPM these are 0.96, 2.88,
\* 24 and 48 ticks, at 96 ticks per beat 0.192, 0.576, 4.8 and 9.6.
TempoDurations == {1, 3, 25, 50}

\* fix_short_notes has been called with a file that can hold tempo events.
TempoCalled ==
  /\ midi_file \in TempoFiles /\ min_duration_ms \in TempoDurations
  /\ new_midi_file = [ticks_per_beat |-> midi_file.ticks_per_beat, tracks |-> <<>>]
  /\ fixPc = "walk" /\ track_idx = 1
  /\ note_stacks = <<>> /\ additional_note_offs = <<>>

\* The latest time at which a note_off can be added to a track of FixTracks.
FixMaxTime == 2 * MaxTrackLen + 2

\* fix_short_notes(midi_file, min_duration_ms) has been called: line 358.
FixCalled ==
  /\ midi_file \in FixFiles /\ min_duration_ms \in FixDurations
  /\ new_midi_file = [ticks_per_beat |-> midi_file.ticks_per_beat, tracks |-> <<>>]
  /\ fixPc = "walk" /\ track_idx = 1
  /\ note_stacks = <<>> /\ additional_note_offs = <<>>

\* ------------------------------------------ Empads: the note off delay
\* note_off_delay=0.1, the default of the constructor's parameter.
DefaultDelay == 100

\* max(0.05, delay)
DelayFloor == 50

\* The delays the constructor and set_note_off_delay are called with.
DelayArgs == {0 - 100, 0, 1, 25, 49, 50, 51, 75, 100, 200, 1000}

Max(a, b) == IF a >= b THEN a ELSE b

\* Empads(...) without a note_off_delay argument.
DelayDefault == note_off_delay = [i \in Instruments |-> DefaultDelay]

\* self.note_off_delay = note_off_delay, line 10: the argument as it is.
DelayConstructed == note_off_delay \in [Instruments -> DelayArgs]

\* set_note_off_delay(delay)
SetNoteOffDelay(i, delay) ==
  /\ note_off_delay' = [note_off_delay EXCEPT ![i] = Max(DelayFloor, delay)]
  /\ UNCHANGED <<sessionVars, flushVars, fixVars, playVars>>

DelayNext == \E i \in Instruments, delay \in DelayArgs : SetNoteOffDelay(i, delay)

\* ------------------------------------------ modules/play.py: play_midi_file
\* The function from its "try:" of line 122 on, the file loaded.  Its main
\* thread is the program's main thread; the progress thread only waits for
\* the stop event.  One call of comprehensive_all_notes_off is one entry
\* "flush" of playLog, one outport.send of the loop one entry "send".
\*
\* Ctrl+C: main() installs signal_handler (main.py:277) before it calls
\* play_midi_file (main.py:198 and 308), so in this program SIGINT runs
\* emergency_stop, which finds main's global outport unset and sends
\* nothing, and then sys.exit(0) raises SystemExit at the interrupted point.
\* Under Python's default handler, in force when another program calls the
\* function, SIGINT raises KeyboardInterrupt at the interrupted point.  Both
\* are modelled; one Ctrl+C per call.

\* The messages of the file that is played.
MaxPlayMsgs == 2

PlayIdle ==
  /\ playPc = "idle" /\ play_outport = "none" /\ playLog = <<>>
  /\ playResult = "none" /\ playback_interrupted = FALSE
  /\ progress_thread = "none" /\ progress_stop_event = FALSE
  /\ playLeft = 0 /\ playPending = "none" /\ sigint = "main" /\ playCause = {}

\* play_midi_file has loaded the file and is at line 122.
PlayCalled ==
  /\ playPc = "open" /\ play_outport = "none" /\ playLog = <<>>
  /\ playResult = "none" /\ playback_interrupted = FALSE
  /\ progress_thread = "none" /\ progress_stop_event = FALSE
  /\ playLeft \in 0..MaxPlayMsgs /\ playPending = "none"
  /\ sigint \in {"main", "default"} /\ playCause = {}

\* The main thread runs the function only while no signal handler runs on it.
PlayRuns == handlerPc \in {"idle", "done"}

\* Where the main thread goes when exception exc is raised at position pc:
\* the inner try (lines 134-153) covers the loop only and catches
\* KeyboardInterrupt and Exception; the outer "except Exception" (line 170)
\* covers the rest of the body; what neither catches runs the finally clause
\* and leaves the function; an exception raised inside the finally clause
\* leaves the function at once.
AfterRaise(pc, exc) ==
  IF pc = "play" /\ exc \in {"KeyboardInterrupt", "Exception"} THEN "handler"
  ELSE IF pc \in {"finally", "close"} THEN "raised"
  ELSE "finally"

\* Whether one of the function's except clauses catches exc raised at pc.
IsCaught(pc, exc) ==
  \/ pc = "play" /\ exc \in {"KeyboardInterrupt", "Exception"}
  \/ pc \notin {"play", "finally", "close"} /\ exc = "Exception"

\* outport = mido.open_output(output_device_name), line 123
PlayOpen ==
  /\ PlayRuns /\ playPc = "open"
  /\ play_outport' = "open"
  /\ playLog' = Append(playLog, "open")
  /\ playPc' = "start"
  /\ UNCHANGED <<playResult, playback_interrupted, progress_thread, progress_stop_event,
                 playLeft, playPending, sigint, playCause,
                 sessionVars, flushVars, fixVars, delayVars>>

\* open_output raises: lines 170-172 log and return False.
PlayOpenFails ==
  /\ PlayRuns /\ playPc = "open"
  /\ playResult' = "False"
  /\ playPc' = AfterRaise(playPc, "Exception")
  /\ playCause' = playCause \cup {"error"}
  /\ UNCHANGED <<play_outport, playLog, playback_interrupted, progress_thread,
                 progress_stop_event, playLeft, playPending, sigint,
                 sessionVars, flushVars, fixVars, delayVars>>

\* Lines 124-132: the progress thread is started, playback_interrupted = False.
PlayStartThread ==
  /\ PlayRuns /\ playPc = "start"
  /\ progress_thread' = "running"
  /\ playback_interrupted' = FALSE
  /\ playPc' = "play"
  /\ UNCHANGED <<play_outport, playLog, playResult, progress_stop_event, playLeft,
                 playPending, sigint, playCause,
                 sessionVars, flushVars, fixVars, delayVars>>

\* for msg in midi_file.play(): outport.send(msg), the port accepting it.
PlaySend ==
  /\ PlayRuns /\ playPc = "play" /\ playLeft > 0
  /\ playLog' = Append(playLog, "send")
  /\ playLeft' = playLeft - 1
  /\ UNCHANGED <<playPc, play_outport, playResult, playback_interrupted, progress_thread,
                 progress_stop_event, playPending, sigint, playCause,
                 sessionVars, flushVars, fixVars, delayVars>>

\* outport.send(msg) raises: except Exception, lines 148-150.
PlaySendRaises ==
  /\ PlayRuns /\ playPc = "play" /\ playLeft > 0
  /\ playback_interrupted' = TRUE
  /\ playPc' = AfterRaise(playPc, "Exception")
  /\ playCause' = playCause \cup {"error"}
  /\ UNCHANGED <<play_outport, playLog, playResult, progress_thread, progress_stop_event,
                 playLeft, playPending, sigint,
                 sessionVars, flushVars, fixVars, delayVars>>

\* The generator is exhausted: the loop and the inner try end.
PlayLoopEnds ==
  /\ PlayRuns /\ playPc = "play" /\ playLeft = 0
  /\ playPc' = "stop"
  /\ UNCHANGED <<play_outport, playLog, playResult, playback_interrupted, progress_thread,
                 progress_stop_event, playLeft, playPending, sigint, playCause,
                 sessionVars, flushVars, fixVars, delayVars>>

\* comprehensive_all_notes_off(outport, logger) in an except clause of the
\* inner try, line 147 or 153.  The function catches what its sends raise.
PlayHandlerFlush ==
  /\ PlayRuns /\ playPc = "handler"
  /\ playLog' = Append(playLog, "flush")
  /\ playPc' = "stop"
  /\ UNCHANGED <<play_outport, playResult, playback_interrupted, progress_thread,
                 progress_stop_event, playLeft, playPending, sigint, playCause,
                 sessionVars, flushVars, fixVars, delayVars>>

\* progress_stop_event.set(), line 156
PlayStop ==
  /\ PlayRuns /\ playPc = "stop"
  /\ progress_stop_event' = TRUE
  /\ playLog' = Append(playLog, "set")
  /\ playPc' = "join"
  /\ UNCHANGED <<play_outport, playResult, playback_interrupted, progress_thread,
                 playLeft, playPending, sigint, playCause,
                 sessionVars, flushVars, fixVars, delayVars>>

\* progress_thread.join(timeout=1.0), lines 157-158: returns when the thread
\* has ended or the second is over, whichever comes first.
PlayJoin ==
  /\ PlayRuns /\ playPc = "join"
  /\ playLog' = Append(playLog, "join")
  /\ playPc' = "final"
  /\ UNCHANGED <<play_outport, playResult, playback_interrupted, progress_thread,
                 progress_stop_event, playLeft, playPending, sigint, playCause,
                 sessionVars, flushVars, fixVars, delayVars>>

\* Lines 161-166: the playback was not interrupted: the final flush, return True.
PlayFinalFlush ==
  /\ PlayRuns /\ playPc = "final" /\ ~playback_interrupted
  /\ playLog' = Append(playLog, "flush")
  /\ playResult' = "True"
  /\ playPc' = "finally"
  /\ UNCHANGED <<play_outport, playback_interrupted, progress_thread, progress_stop_event,
                 playLeft, playPending, sigint, playCause,
                 sessionVars, flushVars, fixVars, delayVars>>

\* Lines 167-168: return False.
PlayReturnFalse ==
  /\ PlayRuns /\ playPc = "final" /\ playback_interrupted
  /\ playResult' = "False"
  /\ playPc' = "finally"
  /\ UNCHANGED <<play_outport, playLog, playback_interrupted, progress_thread,
                 progress_stop_event, playLeft, playPending, sigint, playCause,
                 sessionVars, flushVars, fixVars, delayVars>>

\* finally, lines 175-177: the event is set again, and the thread joined if
\* there is one.
PlayFinally ==
  /\ PlayRuns /\ playPc = "finally"
  /\ progress_stop_event' = TRUE
  /\ playLog' = IF progress_thread # "none" THEN playLog \o <<"set", "join">>
                ELSE Append(playLog, "set")
  /\ playPc' = "close"
  /\ UNCHANGED <<play_outport, playResult, playback_interrupted, progress_thread,
                 playLeft, playPending, sigint, playCause,
                 sessionVars, flushVars, fixVars, delayVars>>

\* finally, lines 180-185: the port is closed if there is one; then the
\* function returns its value, or the propagating exception leaves it.
PlayClose ==
  /\ PlayRuns /\ playPc = "close"
  /\ play_outport' = IF play_outport = "open" THEN "closed" ELSE play_outport
  /\ playLog' = IF play_outport = "open" THEN Append(playLog, "close") ELSE playLog
  /\ playPc' = IF playPending = "none" THEN "returned" ELSE "raised"
  /\ UNCHANGED <<playResult, playback_interrupted, progress_thread, progress_stop_event,
                 playLeft, playPending, sigint, playCause,
                 sessionVars, flushVars, fixVars, delayVars>>

\* update_progress, lines 107-120: the thread sees the event and ends.
ProgressExit ==
  /\ progress_thread = "running" /\ progress_stop_event
  /\ progress_thread' = "finished"
  /\ UNCHANGED <<playPc, play_outport, playLog, playResult, playback_interrupted,
                 progress_stop_event, playLeft, playPending, sigint, playCause,
                 sessionVars, flushVars, fixVars, delayVars>>

\* The positions of the main thread inside the function.
PlayInside ==
  {"open", "start", "play", "handler", "stop", "join", "final", "finally", "close"}

\* Exception exc arrives at the main thread from a signal handler.  A return
\* value that was on its way is dropped when the exception is not caught.
PlayRaise(exc) ==
  /\ playPc' = AfterRaise(playPc, exc)
  /\ playPending' = IF IsCaught(playPc, exc) THEN playPending ELSE exc
  /\ playResult' = IF IsCaught(playPc, exc) THEN playResult ELSE "none"
  /\ playback_interrupted' = IF IsCaught(playPc, exc) THEN TRUE ELSE playback_interrupted

\* Ctrl+C under Python's default handler: KeyboardInterrupt at the
\* interrupted point; inside the loop lines 142-144 catch it.
PlayKeyboardInterrupt ==
  /\ sigint = "default"
  /\ playPc \in PlayInside /\ "interrupt" \notin playCause
  /\ PlayRaise("KeyboardInterrupt")
  /\ playCause' = playCause \cup {"interrupt"}
  /\ UNCHANGED <<play_outport, playLog, progress_thread, progress_stop_event, playLeft,
                 sigint, sessionVars, flushVars, fixVars, delayVars>>

\* Ctrl+C under signal_handler of main.py: cleanup_and_exit calls
\* emergency_stop, which clears the running flag (main.py:221).
PlaySigint ==
  /\ sigint = "main"
  /\ handlerPc = "idle"
  /\ playPc \in PlayInside /\ "interrupt" \notin playCause
  /\ running' = FALSE
  /\ handlerPc' = "flush"
  /\ shutdown' = Append(shutdown, <<"running_cleared", 0>>)
  /\ playCause' = playCause \cup {"interrupt"}
  /\ UNCHANGED <<playPc, play_outport, playLog, playResult, playback_interrupted,
                 progress_thread, progress_stop_event, playLeft, playPending, sigint,
                 portVars, loopVars, handlerIdx, instVars, sinkVars, ops,
                 flushVars, fixVars, delayVars>>

\* sys.exit(0), main.py:262: SystemExit at the interrupted point of
\* play_midi_file, which none of its except clauses catches.
PlaySystemExit ==
  /\ handlerPc = "exit"
  /\ playPc \in PlayInside
  /\ handlerPc' = "done"
  /\ shutdown' = Append(shutdown, <<"exit", 0>>)
  /\ PlayRaise("SystemExit")
  /\ UNCHANGED <<play_outport, playLog, progress_thread, progress_stop_event, playLeft,
                 sigint, playCause,
                 portVars, loopVars, running, handlerIdx, instVars, sinkVars, ops,
                 flushVars, fixVars, delayVars>>

\* HandlerNoPort is the step of emergency_stop between the two: main's global
\* outport is set by the live routing only (main.py:331).
PlayNext ==
  \/ PlayOpen \/ PlayOpenFails \/ PlayStartThread
  \/ PlaySend \/ PlaySendRaises \/ PlayLoopEnds \/ PlayHandlerFlush
  \/ PlayStop \/ PlayJoin \/ PlayFinalFlush \/ PlayReturnFalse
  \/ PlayFinally \/ PlayClose \/ ProgressExit
  \/ PlayKeyboardInterrupt \/ PlaySigint \/ HandlerNoPort \/ PlaySystemExit

\* --------------------------------------------------------------- Init
Init == RouterInit /\ FlushIdle /\ FixIdle /\ DelayDefault /\ PlayIdle

\* ------------------------------------------------------ specifications
RouterNext ==
  \/ OpenPorts \/ OpenFails \/ PollMsg \/ PollIdle
  \/ ProcessDeclined \/ ProcessUnhandled \/ ProcessAttackLock \/ ProcessAttackBody
  \/ ProcessSwallow \/ ProcessForward \/ PassThrough

ShutdownNext == Interrupt \/ HandlerFlush \/ HandlerNoPort \/ HandlerEmergencyStop \/ HandlerExit

ApiNext == \E i \in Instruments : Stop(i) \/ Disable(i) \/ Enable(i)

Next == RouterNext \/ TimerFire \/ TimerCallback \/ ApiNext \/ ShutdownNext

\* The router with ports that work: every poll returns and every send is
\* accepted.
Spec == Init /\ [][Next]_vars

\* The router with an input port that can become unusable.
SpecIO == Init /\ [][Next \/ SourceDies \/ PollRaises]_vars

\* The session as long as no SIGINT arrives, with threads that keep running:
\* a timer whose delay is over tests its flag, a callback that can take the
\* lock runs, and the main thread leaves the attack branch.
RunNext == RouterNext \/ TimerFire \/ TimerCallback \/ ApiNext

FairSpec ==
  /\ Init /\ [][RunNext]_vars
  /\ WF_vars(TimerFire) /\ WF_vars(TimerCallback) /\ WF_vars(ProcessAttackBody)

\* The session with threads that keep running, the SIGINT handler included:
\* whatever step of the loop, of a timer thread or of the handler can be
\* taken is taken in the end.  A thread that waits for a lock takes no step.
FairShutdownSpec ==
  /\ Init /\ [][Next]_vars
  /\ WF_vars(RouterNext) /\ WF_vars(TimerFire) /\ WF_vars(TimerCallback)
  /\ WF_vars(ShutdownNext)

\* The router with an output port that can fail and recover.
SpecFaults == Init /\ [][Next \/ SinkFails \/ SinkRecovers]_vars

\* The router with an output port that can fail and recover and an input
\* port whose poll can raise.
SpecErrors == Init /\ [][Next \/ SinkFails \/ SinkRecovers \/ PollFails]_vars

\* One call of comprehensive_all_notes_off on a port that can fail at any send.
InitFlush == RouterInit /\ FlushCalled /\ FixIdle /\ DelayDefault /\ PlayIdle

SpecFlush == InitFlush /\ [][FlushNext]_vars

\* One call of fix_short_notes on each of the files FixFiles.
InitFix == RouterInit /\ FlushIdle /\ FixCalled /\ DelayDefault /\ PlayIdle

SpecFix == InitFix /\ [][FixNext]_vars

\* One call of fix_short_notes on each of the files TempoFiles.
InitTempo == RouterInit /\ FlushIdle /\ TempoCalled /\ DelayDefault /\ PlayIdle

SpecTempo == InitTempo /\ [][FixNext]_vars

\* The instruments as the constructor leaves them, and the calls of
\* set_note_off_delay.
InitDelay == RouterInit /\ FlushIdle /\ FixIdle /\ DelayConstructed /\ PlayIdle

SpecDelay == InitDelay /\ [][DelayNext]_vars

\* The same call, which an exception can leave at any of its steps.
SpecFixAbort == InitFix /\ [][FixNext \/ FixRaises]_vars

\* One call of play_midi_file with the file loaded, and what Ctrl+C does to it.
InitPlay == RouterInit /\ FlushIdle /\ FixIdle /\ DelayDefault /\ PlayCalled

SpecPlay == InitPlay /\ [][PlayNext]_vars

\* ------------------------------------------------------------- claims
TimersOf(i, n) == {t \in timers : t.inst = i /\ t.note = n}

FallbackUsed(i) ==
  \E k \in DOMAIN sink : sink[k].src[1] = "fallback" /\ sink[k].src[2] = i

\* C1 as stated: between an attack on note n and the next attack on n, at
\* most one release of n by the instrument reaches the port, whatever the
\* interleaving of process_message, timer callbacks, stop() and
\* emergency_stop_all_notes().
C1_AtMostOneRelease ==
  \A i \in Instruments, n \in Notes : releases[i][n] <= 1

\* C1 amended: at most one release of n reaches the port between an attack on
\* n and the next one, except that an emergency stop that finds no note to
\* stop releases its whole fallback range, which can release n once more.
C1_AtMostOneReleaseButFallback ==
  \A i \in Instruments, n \in Notes :
    releases[i][n] <= IF FallbackUsed(i) THEN 2 ELSE 1

\* C1 witness: note n was attacked twice, the first attack's timer sent the
\* release after the second attack, the second timer has run too, and one
\* release reached the port.
C1_Witness ==
  \E i \in Instruments, n \in Notes :
    /\ attacks[i][n] = 2 /\ TimersOf(i, n) = {}
    /\ releases[i][n] = 1
    /\ \E k \in DOMAIN sink : sink[k].src = <<"timer", i, 1>> /\ sink[k].msg.note = n
    /\ \E k \in DOMAIN sink : sink[k].src = <<"attack", i, 2>> /\ sink[k].msg.note = n
    /\ shutdown = <<>>

\* C2: after an attack on n that no later attack on n, stop() or interrupt
\* follows, a release of n eventually reaches the port, and never more than
\* one.
C2_ReleaseEventually ==
  /\ \A i \in Instruments, n \in Notes, g \in 1..MaxOps :
       (attacks[i][n] = g)
         ~> (\/ releases[i][n] = 1
             \/ attacks[i][n] # g
             \/ stopAt[i][n] >= g
             \/ shutdown # <<>>)
  /\ [](shutdown = <<>> => \A i \in Instruments, n \in Notes : releases[i][n] <= 1)

\* C2 witness: the only attack on n so far has been released by its own timer.
C2_Witness ==
  \E i \in Instruments, n \in Notes :
    /\ attacks[i][n] = 1 /\ TimersOf(i, n) = {}
    /\ releases[i][n] = 1 /\ stopAt[i][n] = 0 /\ shutdown = <<>>
    /\ \E k \in DOMAIN sink : sink[k].src = <<"timer", i, 1>> /\ sink[k].msg = ReleaseMsg(i, n)

\* C3 as stated: an attack on a note whose release is pending cancels that
\* release and registers a new one, so that at every instant at most one
\* release per instrument and note is pending (a started timer that is
\* neither cancelled nor past its flag test).
C3_OnePendingRelease ==
  \A i \in Instruments, n \in Notes :
    Cardinality({t \in TimersOf(i, n) : t.st = "waiting"}) <= 1

\* C4 as stated: the callback of a timer that a newer attack on its note has
\* superseded does nothing: it sends no release and leaves the pending table,
\* which holds the newer timer, as it is.
C4_SupersededCallbackIsNoOp ==
  [][\A t \in timers :
       (t.st = "fired" /\ t \notin timers' /\ t.id < attacks[t.inst][t.note])
         => (sink' = sink /\ pending_timers' = pending_timers)]_vars

\* The steps of emergency_stop() in the order C5 gives them.
ShutdownPlan ==
  <<<<"running_cleared", 0>>, <<"flush", 0>>>>
    \o [j \in 1..NumInstruments |-> <<"emergency_stop", j>>]
    \o <<<<"exit", 0>>>>

\* C5 as stated: with the ports open, an interrupt clears the running flag,
\* then sends the panic flush, then calls emergency_stop_all_notes on every
\* instrument in registered order, and at the end no release of any
\* instrument is pending; and once the loop has met the error of a port that
\* has become unusable, the same shutdown has been started.
C5_ShutdownSequence ==
  /\ outport =>
       /\ Len(shutdown) <= Len(ShutdownPlan)
       /\ \A k \in DOMAIN shutdown : shutdown[k] = ShutdownPlan[k]
       /\ shutdown # <<>> => ~running
  /\ (handlerPc = "done" /\ outport) =>
       /\ \A i \in Instruments, n \in Notes : pending_timers[i][n] = 0
       /\ \A t \in timers : t.st # "waiting"
  /\ (inport = "dead" /\ "poll" \in loopErrors) =>
       /\ ~running
       /\ Len(shutdown) >= 2 /\ shutdown[2] = <<"flush", 0>>

\* C6: no timer is created once emergency_stop() has cleared the running
\* flag, so none after emergency_stop_all_notes() has started either.
C6_NoTimerAfterShutdown ==
  [][\A i \in Instruments, n \in Notes :
       attacks'[i][n] > attacks[i][n] => (running /\ shutdown = <<>>)]_vars

\* C6 witness: the interrupt arrived when the loop held an attack that the
\* first instrument would have claimed; the handler has finished and the
\* attack was never processed.
C6_Witness ==
  /\ handlerPc = "done" /\ msg.type = "note_on" /\ msg.velocity > 0
  /\ msg.channel = midi_channel[1] /\ is_enabled[1] /\ seen = <<>>
  /\ \A t \in timers : t.note # msg.note

FiveKinds == {"note_on", "note_off", "control_change", "program_change", "pitchwheel"}

\* C7: for a message of the five kinds, process_message of instrument i
\* claims it exactly when i is enabled and the message is on i's input
\* channel, the claim of an attack ends as True, and a call that returns
\* False sends nothing and leaves the state of the instruments as it is.
C7_ClaimsIffEnabledAndOnChannel ==
  [][/\ \A i \in Instruments :
          (/\ Len(seen') = Len(seen) + 1
           /\ seen'[Len(seen')][1] = i
           /\ msg.type \in FiveKinds)
            => /\ (seen'[Len(seen')][2] # "false")
                    <=> (is_enabled[i] /\ msg.channel = midi_channel[i])
               /\ seen'[Len(seen')][2] = "false"
                    => (sink' = sink /\ instVars' = instVars /\ releases' = releases)
     /\ (/\ seen # <<>> /\ Len(seen') = Len(seen)
         /\ seen[Len(seen)][2] = "pending" /\ seen' # seen)
          => seen'[Len(seen')][2] = "true"]_vars

\* C7 witness: the first instrument, disabled, has declined an attack on its
\* input channel.
C7_Witness ==
  /\ seen # <<>> /\ seen[1] = <<1, "false">>
  /\ ~is_enabled[1] /\ msg.type = "note_on" /\ msg.velocity > 0
  /\ msg.channel = midi_channel[1]

RawSends == {k \in DOMAIN sink : sink[k].src[1] = "router"}

AllDeclined ==
  Len(seen) = NumInstruments /\ \A k \in DOMAIN seen : seen[k][2] = "false"

\* C8: the held message is offered to the instruments in registered order
\* and to none after the first that claims it; the loop sends it raw at most
\* once, unchanged, only when every instrument has declined it, and has sent
\* it when it is back at the head of the loop after every instrument declined.
C8_FirstClaimWins ==
  /\ \A k \in DOMAIN seen : seen[k][1] = k /\ (k < Len(seen) => seen[k][2] = "false")
  /\ Cardinality(RawSends) <= 1
  /\ \A k \in RawSends : sink[k].msg = msg /\ sink[k].ok /\ AllDeclined
  /\ (routerPc = "poll" /\ AllDeclined) => RawSends # {}

\* C8 witness: the first instrument has claimed a message that the second,
\* enabled and on the same input channel, never got; nothing was sent raw.
C8_Witness ==
  /\ routerPc = "poll" /\ seen = <<<<1, "true">>>>
  /\ is_enabled[2] /\ msg.channel = midi_channel[2]
  /\ RawSends = {}

\* The notes of the releases among the entries e sends.
ReleaseNotes(e) ==
  {e[k].msg.note : k \in {j \in DOMAIN e : e[j].msg.type = "note_on" /\ e[j].msg.velocity = 0}}

\* C9 as stated: emergency_stop_all_notes of instrument i leaves no release
\* of i pending, releases exactly the notes that are active and have had no
\* note off, each once, or the range 36..81 when no note is active, and ends
\* with the one CC 123 it sends, on the output channel.
C9_EmergencyStopEmits ==
  [][\A i \in Instruments :
       (Len(shutdown') = Len(shutdown) + 1
          /\ shutdown'[Len(shutdown')] = <<"emergency_stop", i>>)
         => LET e == SubSeq(sink', Len(sink) + 1, Len(sink'))
                sounding == active_notes[i] \ notes_sent_off[i]
            IN /\ \A n \in Notes : pending_timers'[i][n] = 0
               /\ \A t \in timers' : t.inst = i => t.st # "waiting"
               /\ Len(e) >= 1
               /\ e[Len(e)].msg = Message("control_change", output_channel[i], 123, 0)
               /\ \A k \in 1..(Len(e) - 1) :
                    /\ e[k].msg.type = "note_on" /\ e[k].msg.velocity = 0
                    /\ e[k].msg.channel = output_channel[i]
                    /\ \A j \in 1..(Len(e) - 1) : e[j].msg.note = e[k].msg.note => j = k
               /\ IF sounding # {}
                  THEN ReleaseNotes(e) = sounding
                  ELSE active_notes[i] = {} /\ ReleaseNotes(e) = 36..81]_vars

\* C10 as stated: stop() sends nothing, empties the active notes and leaves
\* no release of the instrument pending; and the callback of a timer created
\* before the last stop() of its instrument sends nothing.
C10_StopIsSilentAndFinal ==
  [][/\ \A i \in Instruments :
          Stop(i) => /\ sink' = sink
                     /\ active_notes'[i] = {}
                     /\ \A t \in timers' : t.inst = i => t.st # "waiting"
     /\ \A t \in timers :
          (t.st = "fired" /\ t \notin timers' /\ t.id <= stopAt[t.inst][t.note])
            => sink' = sink]_vars

\* The passes of the channel loop the flush has completed.
ChannelsDone == round_num * FlushChannels + channel

\* C11 as stated: a complete panic flush has sent 7 non-note messages per
\* channel in each of the 3 rounds, 336 in all, and 128 x 2 note messages per
\* channel per round.
C11_SevenPerChannel ==
  flushPc = "done" =>
    /\ flushSent.cc = 7 * 16 * 3 /\ flushSent.cc = 336
    /\ flushSent.note = 128 * 2 * 16 * 3

\* C11 amended: the flush sends 6 non-note messages and 128 x 2 note messages
\* in every pass of the channel loop, so a complete flush has sent 288
\* non-note messages and 12288 note messages over 16 channels and 3 rounds.
C11_SixPerChannel ==
  /\ (flushPc = "sending" /\ flushStep = 0) =>
       /\ flushSent.cc = 6 * ChannelsDone
       /\ flushSent.note = 128 * 2 * ChannelsDone
  /\ flushPc = "done" =>
       /\ flushSent.cc = 6 * 16 * 3 /\ flushSent.cc = 288
       /\ flushSent.note = 128 * 2 * 16 * 3

\* C11 witness: a flush that ran to its end, every send accepted.
C11_Witness ==
  flushPc = "done" /\ flushCalls = flushSent.cc + flushSent.note /\ flushSent.cc > 0

\* The k-th message of the flush in the order C12 gives: rounds, in each the
\* channels 0..15, in each CC 120, CC 123, the notes 0..127 each as note_on
\* with velocity 0 and then note_off, CC 121, CC 64, CC 67, CC 66.
C12_Message(k) ==
  LET perChannel == 2 + 2 * 128 + 4
      c == ((k - 1) \div perChannel) % 16
      p == (k - 1) % perChannel
  IN IF p = 0 THEN Message("control_change", c, 120, 0)
     ELSE IF p = 1 THEN Message("control_change", c, 123, 0)
     ELSE IF p < 2 + 2 * 128
     THEN Message(IF (p - 2) % 2 = 0 THEN "note_on" ELSE "note_off", c, (p - 2) \div 2, 0)
     ELSE Message("control_change", c,
                  CASE p = 258 -> 121 [] p = 259 -> 64 [] p = 260 -> 67 [] OTHER -> 66, 0)

\* C12: the k-th send of the flush is the k-th message of that order, no
\* flush makes more than 3 rounds of sends, and a complete one makes them all.
C12_FlushOrder ==
  /\ flushCalls >= 1 => flushLast = C12_Message(flushCalls)
  /\ flushCalls <= 3 * 16 * (2 + 2 * 128 + 4)
  /\ flushPc = "done" => flushCalls = 3 * 16 * (2 + 2 * 128 + 4)
  /\ flushPc = "sending" =>
       flushCalls = (round_num * 16 + channel) * (2 + 2 * 128 + 4) + flushStep

\* C12 witness: the flush has just sent the sostenuto message of channel 15
\* in its last round.
C12_Witness ==
  /\ flushPc = "done" /\ round_num = 2 /\ channel = 15
  /\ flushLast = Message("control_change", 15, 66, 0)

\* C13 as stated: a send of the flush that fails is caught on its own, so
\* that a flush that has ended has attempted every message of its 3 rounds.
C13_EverySendAttempted ==
  flushPc \in {"done", "failed"} => flushCalls = 3 * 16 * (2 + 2 * 128 + 4)

\* The timeline of a track: for each message its absolute time, kind,
\* channel, note and velocity.
Timeline(track) ==
  [k \in DOMAIN track |->
     <<CurrentTime(track, k), track[k].type, track[k].channel, track[k].note,
       track[k].velocity>>]

\* A note_off with velocity 0, which no track of FixFiles holds.
IsSynthetic(e) == e[2] = "note_off" /\ e[5] = 0

RECURSIVE OnlyInsertions(_, _)
\* out is orig with nothing but synthetic note_offs put in.
OnlyInsertions(orig, out) ==
  IF out = <<>> THEN orig = <<>>
  ELSE IF orig # <<>> /\ Head(out) = Head(orig) THEN OnlyInsertions(Tail(orig), Tail(out))
  ELSE IsSynthetic(Head(out)) /\ OnlyInsertions(orig, Tail(out))

\* C14: the file fix_short_notes returns has a track for every track of its
\* argument, and the timeline of each is that of the original track with
\* nothing but synthetic note_offs put in: every original is there in its
\* place with its absolute time, kind, channel, note and velocity.
C14_OnlyInsertions ==
  fixPc = "returned" =>
    /\ Len(new_midi_file.tracks) = Len(midi_file.tracks)
    /\ new_midi_file.ticks_per_beat = midi_file.ticks_per_beat
    /\ \A k \in DOMAIN midi_file.tracks :
         OnlyInsertions(Timeline(midi_file.tracks[k]), Timeline(new_midi_file.tracks[k]))

\* C14 witness: a synthetic note_off stands before an original in the track
\* that is returned.
C14_Witness ==
  /\ fixPc = "returned"
  /\ LET out == Timeline(new_midi_file.tracks[1])
     IN \E k \in DOMAIN out : IsSynthetic(out[k]) /\ k < Len(out) /\ out[k + 1][1] > out[k][1]

\* The absolute time of message k of the track at hand.
TimeAt(k) == CurrentTime(Track, k)

RECURSIVE LifoPairs(_)
\* The pairs <<attack, release>> among the first k messages of the track: a
\* release takes the latest earlier attack on its channel and note that no
\* earlier release has taken.
LifoPairs(k) ==
  IF k = 0 THEN {}
  ELSE LET before == LifoPairs(k - 1)
           open == {a \in 1..(k - 1) :
                      /\ IsNoteOn(Track[a])
                      /\ Track[a].channel = Track[k].channel
                      /\ Track[a].note = Track[k].note
                      /\ \A p \in before : p[1] # a}
       IN IF IsNoteOff(Track[k]) /\ open # {}
          THEN before \cup {<<CHOOSE a \in open : \A b \in open : b <= a, k>>}
          ELSE before

Pairs == LifoPairs(Len(Track))

ShortPairs == {p \in Pairs : TimeAt(p[2]) - TimeAt(p[1]) < min_duration_ticks}

\* The attacks of the track that no release has taken.
Orphans ==
  LET pairs == Pairs
  IN {a \in DOMAIN Track : IsNoteOn(Track[a]) /\ \A p \in pairs : p[1] # a}

\* The note_off the transform adds for the attack at place a.
ExtensionOf(a) ==
  <<TimeAt(a) + min_duration_ticks,
    [type |-> "note_off", channel |-> Track[a].channel, note |-> Track[a].note,
     velocity |-> 0, time |-> 0]>>

\* The j-th short pair in the order of the releases.
ShortPairAt(j) ==
  CHOOSE p \in ShortPairs : Cardinality({q \in ShortPairs : q[2] <= p[2]}) = j

\* Entry x of additional_note_offs stands in the track that is returned.
InNewTrack(x) ==
  LET out == Timeline(new_midi_file.tracks[track_idx])
  IN \E k \in DOMAIN out : out[k] = <<x[1], "note_off", x[2].channel, x[2].note, 0>>

\* C15: after the walk the list of note_offs to add holds one entry for every
\* pair shorter than min_duration_ticks, at the attack's time plus
\* min_duration_ticks on the pair's channel and note, and none for any other
\* pair; the returned track holds each of them besides all the originals.
C15_OnePerShortPair ==
  /\ fixPc = "orphans" =>
       /\ Len(additional_note_offs) = Cardinality(ShortPairs)
       /\ \A j \in DOMAIN additional_note_offs :
            additional_note_offs[j] = ExtensionOf(ShortPairAt(j)[1])
  /\ fixPc = "returned" =>
       /\ Len(new_midi_file.tracks[track_idx])
            = Len(Track) + Cardinality(ShortPairs) + Cardinality(Orphans)
       /\ \A j \in 1..Cardinality(ShortPairs) : InNewTrack(additional_note_offs[j])

\* C15 witness: the track holds a pair shorter than min_duration_ticks and a
\* pair of exactly min_duration_ticks, and the walk has added one note_off.
C15_Witness ==
  /\ fixPc = "orphans" /\ Len(additional_note_offs) = 1
  /\ \E p \in Pairs : TimeAt(p[2]) - TimeAt(p[1]) = min_duration_ticks
  /\ \E p \in ShortPairs : TimeAt(p[2]) > TimeAt(p[1])

\* The times of the attacks on key that no release has taken, oldest first.
OpenTimes(key) ==
  LET open == {a \in Orphans : Key(Track[a]) = key}
  IN [j \in 1..Cardinality(open) |->
        TimeAt(CHOOSE a \in open : Cardinality({b \in open : b <= a}) = j)]

\* C16: a release is paired with the latest attack on its channel and note
\* that is still unpaired: after the walk the stack of every key holds the
\* times of exactly the attacks that this pairing leaves open, and the
\* note_offs to add are those of the pairs that this pairing finds short,
\* each pair judged on its own.
C16_LifoPairing ==
  fixPc = "orphans" =>
    /\ \A k \in DOMAIN note_stacks :
         /\ note_stacks[k].times = OpenTimes(note_stacks[k].key)
         /\ note_stacks[k].times # <<>>
         /\ \A j \in DOMAIN note_stacks : note_stacks[j].key = note_stacks[k].key => j = k
    /\ \A a \in Orphans : \E k \in DOMAIN note_stacks : note_stacks[k].key = Key(Track[a])
    /\ LET short == ShortPairs
       IN \A key \in FixKeys, t \in 0..FixMaxTime :
            Cardinality({j \in DOMAIN additional_note_offs :
                           additional_note_offs[j] = <<t, ExtraNoteOff(key[1], key[2])>>})
              = Cardinality({p \in short :
                               Key(Track[p[1]]) = key
                                 /\ TimeAt(p[1]) + min_duration_ticks = t})

\* C16 witness: two attacks on one key at different times, then two releases
\* of it; the inner pair is short, the outer is not, an attack on the other
\* key would not do.
C16_Witness ==
  /\ fixPc = "orphans" /\ Len(Track) = 4
  /\ IsNoteOn(Track[1]) /\ IsNoteOn(Track[2]) /\ IsNoteOff(Track[3]) /\ IsNoteOff(Track[4])
  /\ \A k \in 2..4 : Key(Track[k]) = Key(Track[1])
  /\ TimeAt(1) < TimeAt(2)
  /\ Pairs = {<<2, 3>>, <<1, 4>>} /\ ShortPairs = {<<2, 3>>}
  /\ additional_note_offs = <<ExtensionOf(2)>>

\* C17: after the walk every attack that no release has taken gets one
\* note_off on its channel and note at its time plus min_duration_ticks, one
\* for each such attack also when several are on one key; the returned track
\* holds them.
C17_OnePerOrphan ==
  /\ fixPc \in {"encode", "returned"} =>
       LET n == Cardinality(ShortPairs)
           added == SubSeq(additional_note_offs, n + 1, Len(additional_note_offs))
           left == Orphans
       IN /\ Len(added) = Cardinality(left)
          /\ \A a \in left :
               Cardinality({j \in DOMAIN added : added[j] = ExtensionOf(a)})
                 = Cardinality({b \in left : ExtensionOf(b) = ExtensionOf(a)})
  /\ fixPc = "returned" =>
       /\ \A j \in DOMAIN additional_note_offs : InNewTrack(additional_note_offs[j])
       /\ Len(new_midi_file.tracks[track_idx]) = Len(Track) + Len(additional_note_offs)

\* C17 witness: two attacks on one key at different times and no release of
\* it; the returned track holds a note_off for each.
C17_Witness ==
  /\ fixPc = "returned"
  /\ \E a, b \in Orphans :
       /\ a < b /\ Key(Track[a]) = Key(Track[b]) /\ TimeAt(a) < TimeAt(b)
       /\ InNewTrack(ExtensionOf(a)) /\ InNewTrack(ExtensionOf(b))

\* C18 as stated: in the returned track no release of the key comes after
\* the attack of a short pair and before the attack's time plus
\* min_duration_ticks, and the note_off added for an attack does not fall
\* between a later attack on the key and that attack's own release.
C18_ShortNotesExtended ==
  fixPc = "returned" =>
    LET out == Timeline(new_midi_file.tracks[track_idx])
        IsRelease(e) == e[2] = "note_off" \/ (e[2] = "note_on" /\ e[5] = 0)
    IN /\ \A p \in ShortPairs :
            ~ \E k \in DOMAIN out :
                /\ IsRelease(out[k])
                /\ <<out[k][3], out[k][4]>> = Key(Track[p[1]])
                /\ TimeAt(p[1]) < out[k][1]
                /\ out[k][1] < TimeAt(p[1]) + min_duration_ticks
       /\ \A a \in {p[1] : p \in ShortPairs} \cup Orphans :
            InNewTrack(ExtensionOf(a)) =>
              \A q \in Pairs :
                (q[1] > a /\ Key(Track[q[1]]) = Key(Track[a]))
                  => ~ (TimeAt(q[1]) < ExtensionOf(a)[1] /\ ExtensionOf(a)[1] < TimeAt(q[2]))

\* C19 as stated, for its case of the attack: whether or not the port takes
\* the note_on, the attack branch ends without an exception, process_message
\* returns True, the note is in active_notes and a started timer for it is
\* in the pending table.
C19_SendFailureIsAbsorbed ==
  [][(LoopRuns /\ routerPc = "locked" /\ routerPc' # "locked") =>
       /\ seen'[Len(seen')] = <<idx, "true">>
       /\ msg.note \in active_notes'[idx]
       /\ pending_timers'[idx][msg.note] # 0
       /\ Timer(idx, msg.note, pending_timers'[idx][msg.note], "waiting") \in timers']_vars

\* The timer callback that ran in this step met a port that rejects its release.
ReleaseFailsIn(t) ==
  /\ t \in timers /\ t.st = "fired" /\ t \notin timers'
  /\ t.note \in active_notes[t.inst] /\ t.note \notin notes_sent_off[t.inst]
  /\ t.note \in sinkDown

\* What C20 says of such a step: the failure stays in the callback, one
\* attempt was made, the note is recorded as released and has no entry in
\* the pending table.
ReleaseFailureHandled ==
  \A t \in timers :
    ReleaseFailsIn(t) =>
      /\ Len(sink') = Len(sink) + 1
      /\ sink'[Len(sink')].msg = ReleaseMsg(t.inst, t.note) /\ ~sink'[Len(sink')].ok
      /\ t.note \in notes_sent_off'[t.inst]
      /\ pending_timers'[t.inst][t.note] = 0
      /\ releases' = releases
      /\ routerVars' = routerVars

\* The port rejected the release of note n that a timer of instrument i
\* sent, and i has sent no attack on n since.
TimerReleaseFailed(i, n) ==
  \E k \in DOMAIN sink :
    /\ sink[k].msg = ReleaseMsg(i, n) /\ ~sink[k].ok /\ sink[k].src[1] = "timer"
    /\ \A j \in (k + 1)..Len(sink) :
         ~(sink[j].src[1] = "attack" /\ sink[j].src[2] = i /\ sink[j].msg.note = n)

\* C20 as stated: a release whose send fails in the timer callback is handled
\* so, and neither a timer nor emergency stop tries a release of that note a
\* second time before its next attack.
C20_OneAttempt ==
  /\ [][ReleaseFailureHandled]_vars
  /\ [](\A i \in Instruments, n \in Notes :
          TimerReleaseFailed(i, n) => attempts[i][n] <= 1)

\* C20 amended: the same for every note with a release that did not reach
\* the port, but emergency stop tries the release once more when it finds no
\* note to stop and falls back to the range 36..81.
C20_OneAttemptButFallback ==
  /\ [][ReleaseFailureHandled]_vars
  /\ [](\A i \in Instruments, n \in Notes :
          attempts[i][n] > releases[i][n] =>
            attempts[i][n] <= IF FallbackUsed(i) THEN 2 ELSE 1)

\* C20 witness: the release of note 35 by its timer failed, and emergency
\* stop, which had note 36 to release, has not tried 35 again.
C20_Witness ==
  \E i \in Instruments :
    /\ <<"emergency_stop", i>> \in Range(shutdown)
    /\ attempts[i][35] = 1 /\ releases[i][35] = 0
    /\ \E k \in DOMAIN sink :
         sink[k].msg = ReleaseMsg(i, 35) /\ ~sink[k].ok /\ sink[k].src[1] = "timer"
    /\ \E k \in DOMAIN sink :
         sink[k].msg = ReleaseMsg(i, 36) /\ sink[k].src[1] = "estop"
    /\ ~FallbackUsed(i)

\* C21: emergency_stop_all_notes of instrument i returns normally whatever
\* the port rejects: it attempts the release of every note of its stop list
\* (the active and recent notes without a note off, else the range 36..81),
\* also after a release that failed, then attempts CC 123, and leaves the
\* pending table, active_notes and notes_sent_off of i empty and the lock free.
C21_EmergencyStopNeverRaises ==
  [][\A i \in Instruments :
       (Len(shutdown') = Len(shutdown) + 1
          /\ shutdown'[Len(shutdown')] = <<"emergency_stop", i>>)
         => LET listed == (active_notes[i] \cup recent_notes[i]) \ notes_sent_off[i]
                stop == IF listed = {} THEN 36..81 ELSE listed
            IN /\ Len(sink') = Len(sink) + Cardinality(stop) + 1
               /\ \A k \in (Len(sink) + 1)..(Len(sink') - 1) :
                    /\ sink'[k].msg.type = "note_on" /\ sink'[k].msg.velocity = 0
                    /\ sink'[k].msg.channel = output_channel[i]
               /\ {sink'[k].msg.note : k \in (Len(sink) + 1)..(Len(sink') - 1)} = stop
               /\ sink'[Len(sink')].msg
                    = Message("control_change", output_channel[i], 123, 0)
               /\ \A n \in Notes : pending_timers'[i][n] = 0
               /\ active_notes'[i] = {} /\ notes_sent_off'[i] = {}
               /\ lock'[i] = "free"
               /\ handlerPc' \in {"estop", "exit"}
               /\ routerPc' = routerPc]_vars

\* C21 witness: the port rejected the release of note 36 and the CC 123 of
\* an emergency stop that went on to attempt the release of note 37.
C21_Witness ==
  \E i \in Instruments :
    /\ <<"emergency_stop", i>> \in Range(shutdown)
    /\ \E k \in DOMAIN sink :
         /\ k < Len(sink)
         /\ sink[k].msg = ReleaseMsg(i, 36) /\ ~sink[k].ok /\ sink[k].src[2] = i
         /\ sink[k + 1].msg = ReleaseMsg(i, 37) /\ sink[k + 1].ok
         /\ sink[k + 1].src = sink[k].src
    /\ \E k \in DOMAIN sink : sink[k].msg = AllNotesOffMsg(i) /\ ~sink[k].ok
    /\ active_notes[i] = {} /\ notes_sent_off[i] = {}

\* C22: an exception in the body of the routing loop, from inport.poll(),
\* from process_message or from the pass-through send, leaves the session
\* running: the loop is at its head with the running flag set, the ports open
\* and the instrument's lock free; main has returned only after an interrupt
\* or when the ports could not be opened; and the messages polled after an
\* error are offered to the instruments in registered order up to the first
\* claim and sent raw when every instrument has declined them.
C22_LoopSurvivesErrors ==
  /\ [][loopErrors' # loopErrors =>
          /\ routerPc' = "poll" /\ running' /\ handlerPc' = "idle"
          /\ outport' /\ inport' = "open"
          /\ \A i \in Instruments : lock'[i] = "free"]_vars
  /\ [](/\ routerPc = "exited" => handlerPc = "done"
        /\ routerPc = "failed" => ~outport
        /\ loopErrors # {} =>
             /\ \A k \in DOMAIN seen :
                  seen[k][1] = k /\ (k < Len(seen) => seen[k][2] = "false")
             /\ \A k \in RawSends : sink[k].msg = msg /\ AllDeclined
             /\ (routerPc = "poll" /\ AllDeclined) => Cardinality(RawSends) = 1)

\* C22 witness: process_message has raised for an earlier message, and the
\* attack polled after it was claimed by the first instrument and sent.
C22_Witness ==
  /\ "process" \in loopErrors /\ routerPc = "poll" /\ running
  /\ seen = <<<<1, "true">>>>
  /\ \A k \in DOMAIN sink : sink[k].ok
  /\ \E k \in DOMAIN sink :
       sink[k].src[1] = "attack" /\ sink[k].msg = Message("note_on", output_channel[1], msg.note, msg.velocity)

\* C23: fix_short_notes never changes its argument: at every step of the
\* call, whether it returns or an exception leaves it, every track of
\* midi_file holds the messages it held before, with their delta times and
\* fields; and the file it returns is another file with as many tracks and
\* the same ticks_per_beat.
C23_InputNotMutated ==
  /\ [][midi_file' = midi_file]_vars
  /\ [](fixPc = "returned" =>
          /\ Len(new_midi_file.tracks) = Len(midi_file.tracks)
          /\ new_midi_file.ticks_per_beat = midi_file.ticks_per_beat)

\* C23 witness: the returned track holds the control change of the input one
\* tick after an added note_off, while the input still holds it with its
\* delta time of two ticks.
C23_Witness ==
  /\ fixPc = "returned" /\ Len(Track) = 3
  /\ Track[3] = TrackMessage("control_change", 0, 7, 100, 2)
  /\ LET out == new_midi_file.tracks[track_idx]
     IN /\ Len(out) = 4
        /\ out[3].type = "note_off" /\ out[3].velocity = 0
        /\ out[4] = TrackMessage("control_change", 0, 7, 100, 1)

\* C23 witness of the failure: an exception left the call after the walk of
\* a second track, and the input is the file of two tracks it was.
C23_WitnessRaised ==
  /\ fixPc = "raised" /\ track_idx = 2 /\ Len(midi_file.tracks) = 2
  /\ Len(new_midi_file.tracks) = 1

\* C24: when an enabled instrument is offered a note_off, or a note_on with
\* velocity 0, on its input channel, process_message returns True, sends
\* nothing and leaves the pending table, active_notes, notes_sent_off and the
\* timers as they are: the pending release of the note is neither cancelled
\* nor fired by it.
C24_ReleaseIsSwallowed ==
  [][\A i \in Instruments :
       (/\ Len(seen') = Len(seen) + 1
        /\ seen'[Len(seen')][1] = i
        /\ is_enabled[i] /\ msg.channel = midi_channel[i]
        /\ (msg.type = "note_off" \/ (msg.type = "note_on" /\ msg.velocity = 0)))
         => /\ seen'[Len(seen')][2] = "true"
            /\ sink' = sink
            /\ pending_timers' = pending_timers /\ active_notes' = active_notes
            /\ notes_sent_off' = notes_sent_off /\ recent_notes' = recent_notes
            /\ timers' = timers /\ lock' = lock
            /\ releases' = releases
            /\ routerPc' = "poll"]_vars

\* C24 witness: the first instrument has claimed a note_on with velocity 0
\* for note 36 while the release of 36 was pending; the timer is still
\* waiting, the note is still active and nothing was sent.
C24_Witness ==
  /\ seen = <<<<1, "true">>>> /\ routerPc = "poll"
  /\ msg = Message("note_on", 0, 36, 0)
  /\ sink = <<>>
  /\ 36 \in active_notes[1] /\ 36 \notin notes_sent_off[1]
  /\ pending_timers[1][36] # 0
  /\ Timer(1, 36, pending_timers[1][36], "waiting") \in timers

\* C25: when an enabled instrument is offered a control_change, a
\* program_change or a pitchwheel on its input channel, process_message
\* returns True and sends exactly one message, which is the message it got
\* with the channel set to the instrument's output channel and every other
\* field as it was; the note tracking of the instrument is unchanged.
C25_ControllersForwarded ==
  [][\A i \in Instruments :
       (/\ Len(seen') = Len(seen) + 1
        /\ seen'[Len(seen')][1] = i
        /\ is_enabled[i] /\ msg.channel = midi_channel[i]
        /\ msg.type \in {"control_change", "program_change", "pitchwheel"})
         => /\ seen'[Len(seen')][2] = "true"
            /\ Len(sink') = Len(sink) + 1
            /\ sink'[Len(sink')].ok
            /\ sink'[Len(sink')].msg.channel = output_channel[i]
            /\ sink'[Len(sink')].msg.type = msg.type
            /\ sink'[Len(sink')].msg.note = msg.note
            /\ sink'[Len(sink')].msg.velocity = msg.velocity
            /\ pending_timers' = pending_timers /\ active_notes' = active_notes
            /\ notes_sent_off' = notes_sent_off /\ recent_notes' = recent_notes
            /\ timers' = timers
            /\ routerPc' = "poll"]_vars

\* C25 witness: the first instrument, whose output channel is not its input
\* channel, has forwarded a pitchwheel while a release was pending.
C25_Witness ==
  /\ seen = <<<<1, "true">>>> /\ routerPc = "poll"
  /\ msg.type = "pitchwheel" /\ msg.channel = 0 /\ output_channel[1] # 0
  /\ Len(sink) = 1
  /\ sink[1].msg = Message("pitchwheel", output_channel[1], msg.note, msg.velocity)
  /\ \E t \in timers : t.inst = 1 /\ t.st = "waiting"

\* C26 as stated: the delay of every scheduled release is at least 50 ms,
\* whether the constructor or set_note_off_delay has set it.
C26_DelayFloor ==
  \A i \in Instruments : note_off_delay[i] >= 50

\* round(x / y) for x >= 0 and y > 0: the nearest integer, the even one of
\* the two when the quotient lies half way.
RoundOfQuotient(x, y) ==
  LET q == x \div y
      r == x % y
  IN IF 2 * r < y THEN q
     ELSE IF 2 * r > y THEN q + 1
     ELSE IF q % 2 = 0 THEN q ELSE q + 1

\* C27 as stated: min_duration_ticks is
\* min_duration_ms * 1000 * ticks_per_beat / microseconds_per_beat rounded to
\* the nearest integer.
C27_RoundedToNearest ==
  fixPc \in {"orphans", "encode", "returned"} =>
    min_duration_ticks
      = RoundOfQuotient(min_duration_ms * 1000 * midi_file.ticks_per_beat,
                        microseconds_per_beat)

\* C28: every track that fix_short_notes has built is in the order of a
\* stable merge by absolute time: no delta time is negative, the originals
\* stand in their order at their absolute times (the sums of the new delta
\* times), an added note_off stands behind every original of its own
\* absolute time, and the added note_offs of the returned track stand at the
\* times they were computed for.
C28_StableMerge ==
  /\ \A k \in DOMAIN new_midi_file.tracks :
       LET out == new_midi_file.tracks[k]
           tl == Timeline(out)
       IN /\ \A j \in DOMAIN out : out[j].time >= 0
          /\ \A j \in 2..Len(tl) : tl[j - 1][1] <= tl[j][1]
          /\ OnlyInsertions(Timeline(midi_file.tracks[k]), tl)
          /\ \A i \in DOMAIN tl, j \in DOMAIN tl :
               (IsSynthetic(tl[j]) /\ ~IsSynthetic(tl[i]) /\ tl[i][1] = tl[j][1]) => i < j
  /\ fixPc = "returned" =>
       LET tl == Timeline(new_midi_file.tracks[track_idx])
       IN \A x \in Range(additional_note_offs) :
            Cardinality({j \in DOMAIN tl :
                           tl[j] = <<x[1], "note_off", x[2].channel, x[2].note, 0>>})
              = Cardinality({j \in DOMAIN additional_note_offs :
                               additional_note_offs[j] = x})

\* C28 witness: in the returned track an added note_off stands right behind
\* an original of its absolute time and before a later original.
C28_Witness ==
  /\ fixPc = "returned"
  /\ LET tl == Timeline(new_midi_file.tracks[track_idx])
     IN \E j \in 2..(Len(tl) - 1) :
          /\ IsSynthetic(tl[j]) /\ ~IsSynthetic(tl[j - 1]) /\ ~IsSynthetic(tl[j + 1])
          /\ tl[j - 1][1] = tl[j][1] /\ tl[j][1] < tl[j + 1][1]

\* The tracks of the file that hold a tempo event.
TempoTrackIds ==
  {k \in DOMAIN midi_file.tracks :
     \E j \in DOMAIN midi_file.tracks[k] : IsTempo(midi_file.tracks[k][j])}

\* C29 as stated: the tempo that min_duration_ticks is computed with is
\* 500000 when the file holds no tempo event, and else the first tempo event
\* of the first track that holds one, however many tracks hold tempo events.
C29_EarliestTempoUsed ==
  fixPc \in {"orphans", "encode", "returned"} =>
    LET first == CHOOSE k \in TempoTrackIds : \A j \in TempoTrackIds : k <= j
        track == midi_file.tracks[first]
        at == CHOOSE k \in DOMAIN track :
                IsTempo(track[k]) /\ \A j \in 1..(k - 1) : ~IsTempo(track[j])
        tempo == IF TempoTrackIds = {} THEN 500000 ELSE track[at].tempo
    IN /\ microseconds_per_beat = tempo
       /\ min_duration_ticks
            = IntOfQuotient(min_duration_ms * 1000 * midi_file.ticks_per_beat, tempo)

\* C30 as stated: a shutdown that SIGINT has started completes: the handler
\* calls emergency_stop_all_notes on every instrument, each call gets the
\* lock and returns, and the handler ends, also when the interrupt came while
\* the loop was inside process_message with the instrument's lock held.
C30_ShutdownCompletes ==
  (handlerPc = "flush") ~> (handlerPc = "done")

\* The notes of instrument i that have an entry in its pending-timer table.
PendingNotes(i) == {n \in Notes : pending_timers[i][n] # 0}

\* C31: with a sink that never fails, whenever the lock of an instrument is
\* free, the notes with an entry in its pending-timer table are exactly its
\* sounding notes (active_notes), none of them is in its released set
\* (notes_sent_off), and the entry of each is a timer thread that can still
\* run (a live pending release).
C31_PendingIsSounding ==
  \A i \in Instruments :
    lock[i] = "free" =>
      /\ PendingNotes(i) = active_notes[i]
      /\ PendingNotes(i) \cap notes_sent_off[i] = {}
      /\ \A n \in active_notes[i] :
           \E t \in timers : t.inst = i /\ t.note = n /\ t.id = pending_timers[i][n]

\* C31 witness: the race of the claim has happened: a timer of an earlier
\* attack on a note runs its callback while a later attack on the same note
\* has its own timer, and the lock is free again: the note has had at least
\* two timers and is released, with no entry in the table.
C31_Witness ==
  \E i \in Instruments, n \in Notes :
    /\ lock[i] = "free"
    /\ attacks[i][n] >= 2
    /\ n \in notes_sent_off[i] /\ n \notin active_notes[i]
    /\ pending_timers[i][n] = 0
    /\ \E t \in timers : t.inst = i /\ t.note = n /\ t.id = attacks[i][n]

\* The positions of event e in the log of the call.
PlayPositions(e) == {k \in DOMAIN playLog : playLog[k] = e}

\* C32 as stated: when a call of play_midi_file that opened the output port
\* has ended, whether the playback completed, the user interrupted it or a
\* send failed, the panic flush has been sent exactly once, before the port
\* was closed; the stop event is set and the progress thread was joined after
\* it; the port is closed; and the call has returned True if and only if
\* neither an interrupt nor an error disturbed the playback.
C32_FlushOnceAndClosed ==
  (playPc \in {"returned", "raised"} /\ PlayPositions("open") # {}) =>
    /\ Cardinality(PlayPositions("flush")) = 1
    /\ \A f \in PlayPositions("flush"), c \in PlayPositions("close") : f < c
    /\ progress_stop_event
    /\ \E e \in PlayPositions("set"), j \in PlayPositions("join") : e < j
    /\ play_outport = "closed"
    /\ (playPc = "returned" /\ playResult = "True") <=> (playCause = {})

====
